---- MODULE Spec2Model ----
(***************************************************************************)
(* A model of src/module_2/llm_hosting/app.py: the rule-based parser, the  *)
(* field normalizers, the lazily loaded model handle, the memoized model   *)
(* fallback, the POST /standardize handler and the batch file mode.        *)
(* Two further programs of the repository follow it: the web app's pull    *)
(* and update endpoints (module_4/src/flask_app.py, module_3/app.py) under *)
(* WebSpec, and the database loader (module_4/src/load_data.py) under      *)
(* DbSpec.  Each specification moves the variables of its own program.     *)
(*                                                                         *)
(* Text is kept in the state as TLA+ strings.  The string functions work   *)
(* on sequences of one-character strings (Chars / Str convert), over       *)
(* ASCII: letters, digits, blank, comma, period and parentheses.           *)
(***************************************************************************)
EXTENDS Integers, Sequences, FiniteSets, TLC

(***************************************************************************)
(* Characters and Python's str methods                                     *)
(***************************************************************************)
Chars(s) == [i \in 1..Len(s) |-> SubSeq(s, i, i)]

RECURSIVE Str(_)
Str(cs) == IF cs = <<>> THEN "" ELSE cs[1] \o Str(Tail(cs))

LowerAlpha == Chars("abcdefghijklmnopqrstuvwxyz")
UpperAlpha == Chars("ABCDEFGHIJKLMNOPQRSTUVWXYZ")
DigitChars == Chars("0123456789")

LowerSet == {LowerAlpha[i] : i \in 1..26}
UpperSet == {UpperAlpha[i] : i \in 1..26}
WordSet  == LowerSet \cup UpperSet \cup {DigitChars[i] : i \in 1..10} \cup {"_"}

ToLowerMap == [c \in UpperSet |-> LowerAlpha[CHOOSE i \in 1..26 : UpperAlpha[i] = c]]
ToUpperMap == [c \in LowerSet |-> UpperAlpha[CHOOSE i \in 1..26 : LowerAlpha[i] = c]]

lower_char(c) == IF c \in UpperSet THEN ToLowerMap[c] ELSE c
upper_char(c) == IF c \in LowerSet THEN ToUpperMap[c] ELSE c
is_cased(c)   == c \in LowerSet \cup UpperSet
is_space(c)   == c = " "
is_word(c)    == c \in WordSet

\* str.lower()
lower(cs) == [i \in 1..Len(cs) |-> lower_char(cs[i])]

\* str.title(): a cased character is upper-cased when it follows an uncased
\* character (or starts the string) and lower-cased otherwise.
title(cs) ==
    [i \in 1..Len(cs) |->
        IF i = 1 \/ ~is_cased(cs[i - 1]) THEN upper_char(cs[i]) ELSE lower_char(cs[i])]

\* str.strip(chars) for a set of characters
RECURSIVE lstrip_set(_, _)
lstrip_set(cs, S) ==
    IF cs # <<>> /\ cs[1] \in S THEN lstrip_set(Tail(cs), S) ELSE cs

RECURSIVE rstrip_set(_, _)
rstrip_set(cs, S) ==
    IF cs # <<>> /\ cs[Len(cs)] \in S THEN rstrip_set(SubSeq(cs, 1, Len(cs) - 1), S) ELSE cs

strip_set(cs, S) == rstrip_set(lstrip_set(cs, S), S)

\* str.strip()
strip(cs) == strip_set(cs, {" "})

\* re.sub(r"\s+", " ", text)
RECURSIVE collapse_ws(_)
collapse_ws(cs) ==
    IF cs = <<>> THEN <<>>
    ELSE IF is_space(cs[1])
         THEN <<" ">> \o collapse_ws(lstrip_set(cs, {" "}))
         ELSE <<cs[1]>> \o collapse_ws(Tail(cs))

\* str.split(","): the pieces between commas, empty pieces included
RECURSIVE split_acc(_, _, _)
split_acc(cs, cur, acc) ==
    IF cs = <<>> THEN Append(acc, cur)
    ELSE IF cs[1] = ","
         THEN split_acc(Tail(cs), <<>>, Append(acc, cur))
         ELSE split_acc(Tail(cs), Append(cur, cs[1]), acc)

split_comma(cs) == split_acc(cs, <<>>, <<>>)

\* ", ".join(parts[lo:hi]) with 0-based, half-open Python slice bounds
RECURSIVE join_slice(_, _, _)
join_slice(parts, lo, hi) ==
    IF lo >= hi THEN <<>>
    ELSE IF lo + 1 = hi THEN parts[lo + 1]
    ELSE parts[lo + 1] \o <<",", " ">> \o join_slice(parts, lo + 1, hi)

\* cs[i..] starts with pat (1-based i)
starts_at(cs, i, pat) ==
    /\ i + Len(pat) - 1 <= Len(cs)
    /\ SubSeq(cs, i, i + Len(pat) - 1) = pat

\* The regex assertion \b between positions i-1 and i (1-based, 1..Len+1)
word_boundary(cs, i) ==
    LET before == i > 1 /\ is_word(cs[i - 1])
        after  == i <= Len(cs) /\ is_word(cs[i])
    IN  before # after


\* Python's ordering of str values (by code point) on the model's characters
AsciiOrder == Chars(" (),.0123456789ABCDEFGHIJKLMNOPQRSTUVWXYZ_abcdefghijklmnopqrstuvwxyz")
ord(c) == CHOOSE i \in 1..Len(AsciiOrder) : AsciiOrder[i] = c

RECURSIVE str_less(_, _)
str_less(a, b) ==
    IF b = <<>> THEN FALSE
    ELSE IF a = <<>> THEN TRUE
    ELSE IF a[1] = b[1] THEN str_less(Tail(a), Tail(b))
    ELSE ord(a[1]) < ord(b[1])

(***************************************************************************)
(* difflib.SequenceMatcher, as get_close_matches uses it (no junk; the     *)
(* autojunk heuristic needs a second sequence of 200 or more characters).  *)
(* Indices are Python's: 0-based and half-open.                            *)
(***************************************************************************)
RECURSIVE common_len(_, _, _, _, _, _)
common_len(a, i, ahi, b, j, bhi) ==
    IF i < ahi /\ j < bhi /\ a[i + 1] = b[j + 1]
    THEN 1 + common_len(a, i + 1, ahi, b, j + 1, bhi)
    ELSE 0

\* SequenceMatcher.find_longest_match: the longest block, then the one that
\* starts earliest in a, then the one that starts earliest in b.  The scan
\* visits (i, j) in increasing order and keeps a block only when it is
\* strictly longer than the best so far; best is <<i, j, size>>.
RECURSIVE flm_row(_, _, _, _, _, _, _)
flm_row(a, b, ahi, bhi, i, j, best) ==
    IF j >= bhi THEN best
    ELSE LET k == IF a[i + 1] = b[j + 1] THEN common_len(a, i, ahi, b, j, bhi) ELSE 0
         IN  IF k > best[3]
             THEN flm_row(a, b, ahi, bhi, i, j + 1, <<i, j, k>>)
             ELSE flm_row(a, b, ahi, bhi, i, j + 1, best)

RECURSIVE flm_rows(_, _, _, _, _, _, _)
flm_rows(a, b, ahi, blo, bhi, i, best) ==
    IF i >= ahi THEN best
    ELSE LET next == flm_row(a, b, ahi, bhi, i, blo, best)
         IN  IF next[3] > best[3]
             THEN flm_rows(a, b, ahi, blo, bhi, i + 1, next)
             ELSE flm_rows(a, b, ahi, blo, bhi, i + 1, best)

find_longest_match(a, b, alo, ahi, blo, bhi) ==
    flm_rows(a, b, ahi, blo, bhi, alo, <<alo, blo, 0>>)

\* The sum of the sizes of SequenceMatcher.get_matching_blocks()
RECURSIVE matching_size(_, _, _, _, _, _)
RECURSIVE matching_around(_, _, _, _, _, _, _)

\* the block m and the matching blocks to its left and to its right
matching_around(a, b, alo, ahi, blo, bhi, m) ==
    IF m[3] = 0 THEN 0
    ELSE m[3] + matching_size(a, b, alo, m[1], blo, m[2])
              + matching_size(a, b, m[1] + m[3], ahi, m[2] + m[3], bhi)

matching_size(a, b, alo, ahi, blo, bhi) ==
    IF alo >= ahi \/ blo >= bhi THEN 0
    ELSE matching_around(a, b, alo, ahi, blo, bhi,
                         find_longest_match(a, b, alo, ahi, blo, bhi))

\* SequenceMatcher.ratio() >= cutoff, with ratio = 2.0 * M / T and the cutoff
\* in hundredths; real_quick_ratio() is tested first, as in get_close_matches.
ratio_at_least(a, b, cutoff) ==
    LET T  == Len(a) + Len(b)
        mn == IF Len(a) < Len(b) THEN Len(a) ELSE Len(b)
    IN  IF T = 0 THEN TRUE
        ELSE /\ 200 * mn >= cutoff * T
             /\ 200 * matching_size(a, b, 0, Len(a), 0, Len(b)) >= cutoff * T

\* difflib.get_close_matches(word, possibilities, n=1, cutoff): the candidate
\* of the greatest (ratio, candidate) pair among those reaching the cutoff;
\* <<>> for no match.  seq1 is the candidate and seq2 the word.
\* M[i] is the number of matching characters of candidate i, or -1 when
\* its ratio stays below the cutoff; T[i] is the summed length
best_candidate(cand, M, T) ==
    LET ok == {i \in DOMAIN cand : M[i] >= 0}
        ge(i, j) ==
            \/ M[i] * T[j] > M[j] * T[i]
            \/ /\ M[i] * T[j] = M[j] * T[i]
               /\ ~str_less(cand[i], cand[j])
    IN  IF ok = {} THEN <<>>
        ELSE cand[CHOOSE i \in ok : \A j \in ok : ge(i, j)]

matching_if_close(c, word, cutoff) ==
    IF ratio_at_least(c, word, cutoff)
    THEN matching_size(c, word, 0, Len(c), 0, Len(word))
    ELSE -1

get_close_match(word, possibilities, cutoff) ==
    best_candidate(
        [i \in 1..Len(possibilities) |-> Chars(possibilities[i])],
        [i \in 1..Len(possibilities) |->
            matching_if_close(Chars(possibilities[i]), word, cutoff)],
        [i \in 1..Len(possibilities) |-> Len(possibilities[i]) + Len(word)])

(***************************************************************************)
(* The program's state                                                     *)
(***************************************************************************)
VARIABLES
    CANON_UNIS,     \* the canonical university list (module global)
    CANON_PROGS,    \* the canonical program list (module global)
    _LLM,           \* the model handle: 0 is None, n > 0 the n-th Llama object
    _LLM_LOCK,      \* the lock of _load_llm: 0 is free, else the holding thread
    lru,            \* the lru_cache of _call_llm_cached: <<key, value>> pairs,
                    \* least recently used first
    mode,           \* "serve" (app.run) or "batch" (_cli_process_file)
    clients,        \* how many clients send requests at once (1 in batch mode)
    pc,             \* each thread's position in the code
    loc,            \* each thread's local variables
    inferring,      \* the threads inside llm.create_chat_completion
    reply,          \* what the (deterministic) model has answered per text
    hist,           \* history: counters and flags the properties read
    app_module,     \* the web app that runs: "module_3" (app.py) or "module_4"
                    \* (flask_app.py)
    _scraper_loader,\* create_app's scraper_loader_fn: "" is None, "fake" a
                    \* callable the caller passed in
    scraping_state, \* the dict of the web app: is_running, message, lock
                    \* (0 is free, else the holder)
    req,            \* each web request: position, route and response
    thread,         \* the run_scrape thread each accepted pull started
    applicants,     \* the applicants table as committed: its rows in order
    p_id_seq,       \* the sequence behind p_id SERIAL: the last value given
    conn            \* the run of load_data.main: position, data, the table
                    \* inside its transaction, and the calls on the connection

llm_vars == <<CANON_UNIS, CANON_PROGS, _LLM, _LLM_LOCK, lru, mode, clients, pc,
              loc, inferring, reply, hist>>
web_vars == <<app_module, _scraper_loader, scraping_state, req, thread>>

db_vars == <<applicants, p_id_seq, conn>>

vars == <<llm_vars, web_vars, db_vars>>

(***************************************************************************)
(* Static maps and patterns of app.py                                      *)
(***************************************************************************)
\* ABBREV_UNI: the strings each whole-string, case-insensitive pattern
\* accepts (lower-cased), in the dict's order, with the expansion.
ABBREV_UNI ==
    << <<{"mcg", "mcg.", "mcgill"}, "McGill University">>,
       <<{"ubc", "u.bc", "ub.c", "ubc.", "u.b.c", "u.bc.", "ub.c.", "u.b.c."},
         "University of British Columbia">>,
       <<{"uoft"}, "University of Toronto">> >>

COMMON_UNI_FIXES ==
    << <<"McGiill University", "McGill University">>,
       <<"Mcgill University", "McGill University">>,
       <<"University Of British Columbia", "University of British Columbia">> >>

COMMON_PROG_FIXES ==
    << <<"Mathematic", "Mathematics">>,
       <<"Info Studies", "Information Studies">> >>

\* dict.get(key, key) on a dict given as a sequence of <<key, value>> pairs
dict_get(d, s) ==
    IF \E i \in 1..Len(d) : d[i][1] = s
    THEN d[CHOOSE i \in 1..Len(d) : d[i][1] = s][2]
    ELSE s

\* _UNI_KW_RE: the first group needs \b before the keyword only, the second
\* \b on both sides; the leading (?i) makes both case-insensitive.
UNI_KW_PREFIX ==
    {"university", "college", "institute", "school", "polytechnic",
     "academy", "conservatory", "seminary"}

UNI_KW_WORD ==
    {"mit", "ucla", "usc", "nyu", "cuny", "suny", "ucsf", "ucsd", "uci", "ucr",
     "ucd", "ucsb", "ucsc", "ucb", "ubc", "epfl", "eth", "caltech", "emory",
     "purdue", "rutgers", "drexel", "brandeis", "tufts", "vanderbilt",
     "georgetown", "stanford", "harvard", "yale", "princeton", "columbia",
     "cornell", "dartmouth", "brown", "rice", "duke", "oxford", "cambridge"}

\* _UNI_KW_RE.search(cs) is not None
_UNI_KW_RE(cs) ==
    LET low == lower(cs)
    IN  \E i \in 1..Len(cs) :
           /\ word_boundary(cs, i)
           /\ \/ \E k \in UNI_KW_PREFIX : starts_at(low, i, Chars(k))
              \/ \E k \in UNI_KW_WORD :
                    /\ starts_at(low, i, Chars(k))
                    /\ word_boundary(cs, i + Len(k))

\* re.sub(rf"\b{word}\b", repl, cs): every occurrence, left to right
RECURSIVE sub_word_from(_, _, _, _)
sub_word_from(cs, i, word, repl) ==
    IF i > Len(cs) THEN <<>>
    ELSE IF /\ starts_at(cs, i, word)
            /\ word_boundary(cs, i)
            /\ word_boundary(cs, i + Len(word))
         THEN repl \o sub_word_from(cs, i + Len(word), word, repl)
         ELSE <<cs[i]>> \o sub_word_from(cs, i + 1, word, repl)

RECURSIVE lower_small_words(_, _)
lower_small_words(cs, words) ==
    IF words = <<>> THEN cs
    ELSE lower_small_words(
             sub_word_from(cs, 1, Chars(words[1]), lower(Chars(words[1]))),
             Tail(words))

\* re.sub(r"\s*\([A-Z]{2,}\)\s*$", "", cs): a trailing "(AB...)" of two or more
\* capitals goes, with the blanks around it
strip_paren_abbrev(cs) ==
    LET r == rstrip_set(cs, {" "})
        n == Len(r)
        opens == {i \in 1..n : /\ r[i] = "("
                               /\ n - i >= 3
                               /\ \A j \in (i + 1)..(n - 1) : r[j] \in UpperSet}
    IN  IF n >= 4 /\ r[n] = ")" /\ opens # {}
        THEN rstrip_set(SubSeq(r, 1, (CHOOSE i \in opens : TRUE) - 1), {" "})
        ELSE cs

\* re.sub(r"^(department|dept\.?)\s+of\s+", "", cs, flags=re.IGNORECASE)
department_head(low) ==
    IF starts_at(low, 1, Chars("department")) THEN 10
    ELSE IF starts_at(low, 1, Chars("dept.")) THEN 5
    ELSE IF starts_at(low, 1, Chars("dept")) THEN 4
    ELSE 0

strip_department_at(cs, low, head) ==
    LET a == SubSeq(low, head + 1, Len(cs))
        b == lstrip_set(a, {" "})
        c == SubSeq(b, 3, Len(b))
        d == lstrip_set(c, {" "})
    IN  IF /\ head > 0
           /\ Len(b) < Len(a)
           /\ starts_at(b, 1, Chars("of"))
           /\ Len(d) < Len(c)
        THEN SubSeq(cs, Len(cs) - Len(d) + 1, Len(cs))
        ELSE cs

strip_department(cs) == strip_department_at(cs, lower(cs), department_head(lower(cs)))

\* s[0].upper() + s[1:] for a non-empty s
cap_first(cs) == IF cs = <<>> THEN cs ELSE <<upper_char(cs[1])>> \o Tail(cs)

(***************************************************************************)
(* The pure functions of app.py.  They take and return strings; a Python   *)
(* tuple is a TLA+ tuple, and None is the empty tuple <<>> where the       *)
(* caller tests "is None" and the empty string where it tests truth.       *)
(***************************************************************************)
\* _best_match(name, candidates, cutoff): cutoff in hundredths; "" for None
_best_match(name, candidates, cutoff) ==
    IF name = "" \/ candidates = <<>> THEN ""
    ELSE Str(get_close_match(Chars(name), candidates, cutoff))

in_list(s, list) == \E i \in 1..Len(list) : list[i] = s

\* [p.strip() for p in s.split(",") if p.strip()]
RECURSIVE nonempty_parts(_)
nonempty_parts(pieces) ==
    IF pieces = <<>> THEN <<>>
    ELSE IF strip(pieces[1]) = <<>> THEN nonempty_parts(Tail(pieces))
    ELSE <<strip(pieces[1])>> \o nonempty_parts(Tail(pieces))

\* the for loop of _smart_split, from boundary i down to 1
RECURSIVE right_scan(_, _)
RECURSIVE scan_step(_, _, _, _, _)

\* one pass of the loop: exact match, close match, keyword, or go on
scan_step(parts, i, prog, candidate_uni, canon_match) ==
    IF in_list(candidate_uni, CANON_UNIS) THEN <<prog, candidate_uni>>
    ELSE IF canon_match # "" THEN <<prog, canon_match>>
    ELSE IF _UNI_KW_RE(Chars(candidate_uni)) THEN <<prog, candidate_uni>>
    ELSE right_scan(parts, i - 1)

scan_candidate(parts, i, candidate_uni) ==
    scan_step(parts, i, Str(join_slice(parts, 0, i)), candidate_uni,
              _best_match(candidate_uni, CANON_UNIS, 88))

right_scan(parts, i) ==
    IF i < 1 THEN <<Str(parts[1]), Str(join_slice(parts, 1, Len(parts)))>>
    ELSE scan_candidate(parts, i, Str(join_slice(parts, i, Len(parts))))

\* a split at the first comma
naive_split(s, parts) ==
    IF Len(parts) <= 1 THEN <<Str(s), "">>
    ELSE <<Str(parts[1]), Str(join_slice(parts, 1, Len(parts)))>>

\* _smart_split once s is cleaned and split at the commas
split_parts(s, parts) ==
    IF Len(parts) <= 1 THEN <<Str(s), "">>
    ELSE right_scan(parts, Len(parts) - 1)

split_cleaned(s) == split_parts(s, nonempty_parts(split_comma(s)))

_smart_split(text) ==
    split_cleaned(strip_set(strip(collapse_ws(Chars(text))), {","}))

\* re.sub(r"\bOf\b", "of", uni.title())
title_of(uni) == Str(sub_word_from(title(Chars(uni)), 1, Chars("Of"), Chars("of")))

\* re.fullmatch(r"(?i)mcg(ill)?(\.)?", uni)
expand_mcgill(uni) ==
    IF Str(lower(Chars(uni))) \in {"mcg", "mcgill", "mcg.", "mcgill."}
    THEN "McGill University" ELSE uni

\* re.fullmatch(r"(?i)(ubc|u\.?b\.?c\.?|university of british columbia)", uni)
expand_ubc(uni) ==
    IF Str(lower(Chars(uni)))
           \in ABBREV_UNI[2][1] \cup {"university of british columbia"}
    THEN "University of British Columbia" ELSE uni

title_or_unknown(uni) == IF uni # "" THEN title_of(uni) ELSE "Unknown"

split_titled(sp) ==
    <<Str(title(Chars(sp[1]))), title_or_unknown(expand_ubc(expand_mcgill(sp[2])))>>

_split_fallback(text) == split_titled(_smart_split(text))

\* the canonical spelling of p: p itself when listed, else its close match
canonical_program(p, match) ==
    IF in_list(p, CANON_PROGS) THEN p
    ELSE IF match # "" THEN match
    ELSE p

match_program(p) == canonical_program(p, _best_match(p, CANON_PROGS, 78))

\* _post_normalize_program up to the capitalised first letter
clean_program(prog) ==
    LET p0 == Str(strip(Chars(prog)))
        p1 == Chars(dict_get(COMMON_PROG_FIXES, p0))
        p2 == strip_paren_abbrev(p1)
        p3 == strip_department(p2)
        p4 == strip(strip_set(strip(p3), {","}))
        p5 == title(p4)
        p6 == lower_small_words(p5, <<"And", "Of", "In", "For", "The", "With", "To">>)
    IN  Str(cap_first(p6))

_post_normalize_program(prog) == match_program(clean_program(prog))

\* the for loop over ABBREV_UNI, with its break
RECURSIVE expand_abbrev(_, _)
expand_abbrev(u, i) ==
    IF i > Len(ABBREV_UNI) THEN u
    ELSE IF Str(lower(Chars(u))) \in ABBREV_UNI[i][1] THEN ABBREV_UNI[i][2]
    ELSE expand_abbrev(u, i + 1)

\* the same choice without the sentinel
canonical_or_empty(u, match) ==
    IF in_list(u, CANON_UNIS) THEN u
    ELSE IF match # "" THEN match
    ELSE u

\* the canonical spelling of u: u itself when listed, else its close match,
\* else u, else "Unknown"
canonical_university(u, match) ==
    IF in_list(u, CANON_UNIS) THEN u
    ELSE IF match # "" THEN match
    ELSE IF u # "" THEN u
    ELSE "Unknown"

match_university(u) == canonical_university(u, _best_match(u, CANON_UNIS, 80))

\* "if u:" title case, small words lowered, first letter capitalised
title_university(u3) ==
    IF u3 = <<>> THEN u3
    ELSE cap_first(lower_small_words(title(u3),
             <<"Of", "And", "In", "For", "The", "At", "De", "Du", "Des">>))

\* _post_normalize_university up to the capitalised first letter
clean_university(uni) ==
    LET u0 == Str(strip(Chars(uni)))
        u1 == expand_abbrev(u0, 1)
        u2 == Chars(dict_get(COMMON_UNI_FIXES, u1))
    IN  Str(title_university(strip(strip_paren_abbrev(u2))))

_post_normalize_university(uni) == match_university(clean_university(uni))

\* a decision that answers a text without a university fragment
eager_decision(uni_raw, prog, uni) ==
    IF uni_raw = "" THEN <<prog, uni>>
    ELSE IF uni # "Unknown" /\ prog # "" THEN <<prog, uni>>
    ELSE IF uni # "" /\ in_list(uni, CANON_UNIS) THEN <<prog, uni>>
    ELSE <<>>

\* the decision with the second test made on the raw fragment
raw_decision(uni_raw, prog, uni) ==
    IF uni_raw = "" THEN <<>>
    ELSE IF uni # "Unknown" /\ prog # "" THEN <<prog, uni>>
    ELSE IF in_list(uni_raw, CANON_UNIS) THEN <<prog, uni>>
    ELSE <<>>

\* _try_rule_based_parse: <<program, university>>, or <<>> for None
rule_decision(uni_raw, prog, uni) ==
    IF uni_raw = "" THEN <<>>
    ELSE IF uni # "Unknown" /\ prog # "" THEN <<prog, uni>>
    ELSE IF uni # "" /\ in_list(uni, CANON_UNIS) THEN <<prog, uni>>
    ELSE <<>>

rule_split(sp) ==
    rule_decision(sp[2], _post_normalize_program(sp[1]),
                  _post_normalize_university(sp[2]))

_try_rule_based_parse(program_text) ==
    IF program_text = "" \/ strip(Chars(program_text)) = <<>>
    THEN <<"Unknown", "Unknown">>
    ELSE rule_split(_smart_split(program_text))

(***************************************************************************)
(* Bounds of the model and the inputs it draws                             *)
(***************************************************************************)
NThreads    == 2    \* request threads of the (threaded) Flask server
MaxRows     == 2    \* records in one request or batch file
MaxTextLen  == 3    \* length of the enumerated raw texts
\* The capacity of the lru_cache of _call_llm_cached.  The program's value is
\* 10000 (app.py line 311); the model keeps the cache's code and scales the
\* capacity so that a full cache is reachable.
LRU_MAXSIZE == 2
NRequests   == 3    \* requests the web app receives
MaxEntries  == 2    \* records in one data file of load_data.py
MaxLoads    == 2    \* runs of load_data.py

Threads == 1..NThreads
Requests == 1..NRequests

\* Python dicts are functions from keys to values
EmptyDict == [k \in {} |-> ""]
SetItem(d, k, v) == [j \in DOMAIN d \cup {k} |-> IF j = k THEN v ELSE d[j]]

\* JSON null as the value of a field
None == "<None>"

\* A row of the request: a JSON object, or null, or another non-object
DictRow(d) == [kind |-> "dict", d |-> d]
NullRow    == [kind |-> "null", d |-> EmptyDict]
StrRow     == [kind |-> "str", d |-> EmptyDict]

\* Raw texts: every string of at most MaxTextLen characters over Alphabet,
\* and texts of the kind the scraper delivers
Alphabet == {"a", ",", " "}

RECURSIVE StringsUpTo(_)
StringsUpTo(n) ==
    IF n = 0 THEN {""}
    ELSE LET prev == StringsUpTo(n - 1)
         IN  prev \cup {s \o c : s \in prev, c \in Alphabet}

SampleTexts ==
    {"Physics", "Math, MIT", ", ,", "Information, McG",
     "Criminology, Law and Society, Temple University",
     "Mathematics, University Of British Columbia",
     "(AB), McGill University", "Info Studies, uoft", "Art, Design, Foo",
     "(AB), McG", "Dept of Dept of Art, McG (AB)"}

RawTexts == StringsUpTo(MaxTextLen) \cup SampleTexts

\* Rows for requests of several records
SeqRows ==
    { DictRow([program |-> "Art", url |-> "u1"]),
      DictRow([program |-> "CS"]),
      DictRow([program |-> "Math, MIT", url |-> "u2", comments |-> "x"]),
      DictRow(SetItem([program |-> "Law, McG"], "llm-generated-program", "old")),
      DictRow([url |-> "u3"]),
      DictRow([program |-> None, url |-> "u4"]),
      NullRow, StrRow }

RECURSIVE SeqsUpTo(_, _)
SeqsUpTo(S, n) ==
    IF n = 0 THEN {<<>>}
    ELSE LET prev == SeqsUpTo(S, n - 1)
         IN  prev \cup {Append(q, x) : q \in prev, x \in S}

\* A request body or input file: a JSON list, an object holding the list
\* under "rows", any other JSON value or no JSON at all ("other"), or (for a
\* file) text that json.load rejects ("invalid")
ListPayload(rows) == [kind |-> "list", rows |-> rows]

WidePayloads ==
    {ListPayload(r) : r \in SeqsUpTo(SeqRows, MaxRows)}
    \cup {ListPayload(<<DictRow([program |-> t])>>) : t \in RawTexts}
    \cup {[kind |-> "dict_rows", rows |-> <<DictRow([program |-> "Art"])>>],
          [kind |-> "other", rows |-> <<>>],
          \* an object that holds its list under another key than "rows"
          [kind |-> "other", rows |-> <<DictRow([program |-> "Art"])>>],
          [kind |-> "invalid", rows |-> <<>>]}

\* With several clients at once the requests are drawn from this small set
SysPayloads ==
    {ListPayload(<<DictRow([program |-> "Art"])>>),
     ListPayload(<<DictRow([program |-> "Art"]), DictRow([program |-> "CS"])>>),
     ListPayload(<<DictRow([program |-> "Law"]), DictRow([program |-> "Art"])>>),
     ListPayload(<<DictRow([program |-> "Math, MIT"])>>)}

\* With more than two, each client sends one record
SoloPayloads ==
    {ListPayload(<<DictRow([program |-> "Art"])>>),
     ListPayload(<<DictRow([program |-> "CS"])>>)}

Payloads(n) ==
    IF n = 1 THEN WidePayloads ELSE IF n = 2 THEN SysPayloads ELSE SoloPayloads

\* What the model may answer: text without a JSON object ("chatter"), a JSON
\* value that is not an object ("nonobject"), or an object with some of the
\* two fields ("object")
ObjectReply(d) == [kind |-> "object", d |-> d]

SysReplies ==
    {[kind |-> "chatter", d |-> EmptyDict],
     ObjectReply([standardized_program |-> "art history",
                  standardized_university |-> "McG"])}

WideReplies ==
    SysReplies
    \cup {[kind |-> "nonobject", d |-> EmptyDict],
          ObjectReply([standardized_university |-> "mit"]),
          ObjectReply([standardized_program |-> " ", standardized_university |-> ""]),
          ObjectReply(EmptyDict)}

\* the wide set is drawn for a lone request of one record
Replies(n, rows) == IF n = 1 /\ Len(rows) = 1 THEN WideReplies ELSE SysReplies

\* The canonical list files: absent, or lines with blanks and padding
CanonFiles ==
    {[unis  |-> [exists |-> FALSE, lines |-> <<>>],
      progs |-> [exists |-> FALSE, lines |-> <<>>]],
     [unis  |-> [exists |-> TRUE,
                 lines  |-> <<"McGill University", "",
                              " University of British Columbia ",
                              "Temple University">>],
      progs |-> [exists |-> TRUE,
                 lines  |-> <<"Information Studies", "Mathematics", "  ",
                              "Computer Science">>]]}

\* _read_lines: the stripped non-empty lines; [] for a missing file
RECURSIVE stripped_lines(_)
stripped_lines(lines) ==
    IF lines = <<>> THEN <<>>
    ELSE LET ln == Str(strip(Chars(lines[1])))
         IN  IF ln = "" THEN stripped_lines(Tail(lines))
             ELSE <<ln>> \o stripped_lines(Tail(lines))

_read_lines(file) == IF file.exists THEN stripped_lines(file.lines) ELSE <<>>

(***************************************************************************)
(* functools.lru_cache(maxsize=LRU_MAXSIZE) around _call_llm_cached        *)
(***************************************************************************)
lru_keys(c) == {c[i][1] : i \in 1..Len(c)}
lru_value(c, key) == c[CHOOSE i \in 1..Len(c) : c[i][1] = key][2]

\* a lookup that never finds its key
lru_never_hit(c, key) == FALSE

\* the wrapper's lookup: is the key cached?
lru_hit(c, key) == key \in lru_keys(c)

\* a hit makes the entry the most recently used
lru_touch(c, key) ==
    LET i == CHOOSE j \in 1..Len(c) : c[j][1] = key
    IN  SubSeq(c, 1, i - 1) \o SubSeq(c, i + 1, Len(c)) \o <<c[i]>>

\* a store that drops the most recently used entry of a full cache
lru_store_drop_newest(c, key, value) ==
    IF key \in lru_keys(c) THEN c
    ELSE IF Len(c) >= LRU_MAXSIZE
    THEN Append(SubSeq(c, 1, Len(c) - 1), <<key, value>>)
    ELSE Append(c, <<key, value>>)

\* after the call: a key stored meanwhile is left alone; a full cache drops
\* its least recently used entry
lru_store(c, key, value) ==
    IF key \in lru_keys(c) THEN c
    ELSE IF Len(c) >= LRU_MAXSIZE THEN Append(Tail(c), <<key, value>>)
    ELSE Append(c, <<key, value>>)

(***************************************************************************)
(* Helpers of the handlers                                                 *)
(***************************************************************************)
\* the records of the body wherever they are
any_rows(payload) == payload.rows

\* _normalize_input
_normalize_input(payload) ==
    IF payload.kind \in {"list", "dict_rows"} THEN payload.rows ELSE <<>>

\* (row or {}).get("program") raises for a row that is neither dict nor falsy
get_raises(row) == row.kind = "str"

\* the field as it stands: .get("program") without the 'or ""'
get_program(row) ==
    IF row.kind = "dict" /\ "program" \in DOMAIN row.d THEN row.d["program"] ELSE ""

\* (row or {}).get("program") or ""
row_program(row) ==
    IF row.kind = "dict" /\ "program" \in DOMAIN row.d /\ row.d["program"] # None
    THEN row.d["program"]
    ELSE ""

\* row[...] = ... raises for a row that is no dict
setitem_raises(row) == row.kind # "dict"

\* a row rebuilt from the two fields alone
only_llm_fields(row, res) ==
    [row EXCEPT !.d = [k \in {"llm-generated-program", "llm-generated-university"} |->
                          IF k = "llm-generated-program" THEN res[1] ELSE res[2]]]

\* row["llm-generated-program"] = ...; row["llm-generated-university"] = ...
set_llm_fields(row, res) ==
    [row EXCEPT !.d = SetItem(SetItem(@, "llm-generated-program", res[1]),
                              "llm-generated-university", res[2])]

\* a test that sends every record to the fallback
never_accepts(result) == FALSE

\* a test that keeps only the sentinel pair of the parser
accepts_sentinel_only(result) == result = <<"Unknown", "Unknown">>

\* _standardize_fast: "if result is not None"
rule_accepts(result) == result # <<>>

\* _load_llm: "if _LLM is not None: return _LLM", before and after the lock
is_loaded(handle) == handle # 0

\* a second check that is skipped
unchecked(handle) == TRUE

still_unloaded(handle) == handle = 0

\* a test that loads the model for every run
always_preload(llm_needed) == TRUE

\* _cli_process_file: "if llm_needed:"
needs_preload(llm_needed) == llm_needed # <<>>

\* _call_llm_cached, lines 341-348: the two fields of the first JSON object in
\* the model's text, or _split_fallback(program_text) when anything raises
dict_get_str(d, key) == IF key \in DOMAIN d THEN Str(strip(Chars(d[key]))) ELSE ""

parse_reply(out, program_text) ==
    IF out.kind = "object"
    THEN <<dict_get_str(out.d, "standardized_program"),
           dict_get_str(out.d, "standardized_university")>>
    ELSE _split_fallback(program_text)

\* _call_llm_cached, lines 350-352
normalized_pair(parsed) ==
    <<_post_normalize_program(parsed[1]), _post_normalize_university(parsed[2])>>

normalized_reply(out, program_text) ==
    normalized_pair(parse_reply(out, program_text))

\* the pairs left as they come
unsorted(pairs) == pairs

\* sorted(pairs, key=lambda x: x[0]): a stable insertion sort by index
RECURSIVE insert_by_index(_, _)
insert_by_index(sorted, x) ==
    IF sorted = <<>> THEN <<x>>
    ELSE IF x[1] < sorted[1][1] THEN <<x>> \o sorted
    ELSE <<sorted[1]>> \o insert_by_index(Tail(sorted), x)

RECURSIVE sorted_by_index(_)
sorted_by_index(pairs) ==
    IF pairs = <<>> THEN <<>>
    ELSE insert_by_index(sorted_by_index(SubSeq(pairs, 1, Len(pairs) - 1)),
                         pairs[Len(pairs)])

NoReply == [kind |-> "none", d |-> EmptyDict]

\* a thread's locals before its request; route is the URL it serves, body
\* the kind of payload it came with, and late records that a load of the
\* model had failed when the request came
InitLoc ==
    [rows |-> <<>>, idx |-> 0, out |-> <<>>, text |-> "", rule |-> <<>>,
     result |-> <<>>, llm |-> 0, ret |-> "", raced |-> FALSE, got |-> NoReply,
     rule_parsed |-> <<>>, llm_needed |-> <<>>, processed_llm |-> <<>>,
     k |-> 0, resp |-> "none", route |-> "", late |-> FALSE, body |-> ""]

\* thread q is inside _call_llm_cached (past the cache lookup)
InCall(q) ==
    \/ pc[q] \in {"infer", "inferring", "store"}
    \/ pc[q] \in {"load1", "lock", "load2"} /\ loc[q].ret = "call"

\* where _load_llm returns to: the model call, or the batch loop
after_load_pc(l) == IF l.ret = "call" THEN "infer" ELSE "b_process"

\* the caller of _standardize_fast takes the result: the request handler
\* appends the row to out, the batch loop to processed_llm
emitted(l, res) ==
    IF mode = "serve"
    THEN [l EXCEPT !.out = Append(@, set_llm_fields(l.rows[l.idx], res)),
                   !.idx = @ + 1, !.text = "", !.rule = <<>>, !.result = <<>>,
                   !.llm = 0, !.raced = FALSE, !.got = NoReply, !.ret = ""]
    ELSE [l EXCEPT !.processed_llm =
                       Append(@, <<l.llm_needed[l.k][1],
                                   set_llm_fields(l.llm_needed[l.k][2], res)>>),
                   !.k = @ + 1, !.text = "", !.rule = <<>>, !.result = <<>>,
                   !.llm = 0, !.raced = FALSE, !.got = NoReply, !.ret = ""]

caller_pc == IF mode = "serve" THEN "row" ELSE "b_process"

\* an exception that writes out the rule-parsed records before it leaves
failed_flushing(l, why) ==
    [l EXCEPT !.resp = why,
              !.out = [i \in 1..Len(l.rule_parsed) |-> l.rule_parsed[i][2]]]

\* an exception leaves the handler: the request answers 500, the batch run
\* ends without writing
failed(l, why) == [l EXCEPT !.resp = why]

\* history: count one more inference for the text
counted(n, text) == SetItem(n, text, IF text \in DOMAIN n THEN n[text] + 1 ELSE 1)
noted(r, text, res) ==
    SetItem(r, text, IF text \in DOMAIN r THEN r[text] \cup {res} ELSE {res})

(***************************************************************************)
(* The service: start-up, then the steps of each thread                    *)
(***************************************************************************)
InitHist ==
    [constructed |-> 0, built_by |-> "", contended |-> FALSE, preloads |-> 0,
     infer_n |-> EmptyDict, results |-> EmptyDict, hits |-> {}, evicted |-> {},
     overlap |-> {}, raised |-> {}]

\* the web app after create_app() / import: nothing is running
WebAtStart ==
    /\ scraping_state = [is_running |-> FALSE, message |-> "", lock |-> 0]
    /\ req = [r \in Requests |->
                 [pc |-> "idle", route |-> "", status |-> 0, json |-> EmptyDict,
                  saw |-> FALSE]]
    /\ thread = [r \in Requests |->
                    [pc |-> "none", stage |-> 0, log |-> <<>>, outcome |-> ""]]

\* an empty database, and load_data.py not yet run
DbAtStart ==
    /\ applicants = <<>>
    /\ p_id_seq = 0
    /\ conn = [pc |-> "idle", run |-> 0, data |-> <<>>, idx |-> 0, open |-> FALSE,
               table |-> <<>>, calls |-> <<>>, failed_at |-> "", raised |-> ""]

Init ==
    /\ app_module = "module_4" /\ _scraper_loader = "" /\ WebAtStart
    /\ DbAtStart
    /\ mode \in {"serve", "batch"}
    /\ clients \in 1..NThreads
    /\ mode = "batch" => clients = 1
    /\ \E file \in CanonFiles :
          /\ clients > 1 => ~file.unis.exists
          /\ CANON_UNIS = _read_lines(file.unis)
          /\ CANON_PROGS = _read_lines(file.progs)
    /\ _LLM = 0
    /\ _LLM_LOCK = 0
    /\ lru = <<>>
    /\ pc = [p \in Threads |-> "idle"]
    /\ loc = [p \in Threads |-> InitLoc]
    /\ inferring = {}
    /\ reply = EmptyDict
    /\ hist = InitHist

fixed == <<CANON_UNIS, CANON_PROGS, mode, clients, web_vars, db_vars>>
shared == <<_LLM, _LLM_LOCK, lru, inferring, reply, hist>>

\* some request has ended because _load_llm raised
load_failed == \E q \in Threads : loc[q].resp = "LoadError"

\* health(): GET / answers {"ok": true} whatever the state of the service
Health(p) ==
    /\ mode = "serve" /\ p <= clients /\ pc[p] = "idle"
    /\ loc' = [loc EXCEPT ![p] = [@ EXCEPT !.route = "/", !.resp = "ok",
                                            !.late = load_failed]]
    /\ pc' = [pc EXCEPT ![p] = "done"]
    /\ UNCHANGED <<fixed, shared>>

\* standardize(), lines 399-402: the request body becomes the rows
Request(p) ==
    /\ mode = "serve" /\ p <= clients /\ pc[p] = "idle"
    /\ \E payload \in Payloads(clients) :
          loc' = [loc EXCEPT ![p] = [@ EXCEPT !.rows = _normalize_input(payload),
                                              !.idx = 1,
                                              !.route = "/standardize",
                                              !.late = load_failed,
                                              !.body = payload.kind]]
    /\ pc' = [pc EXCEPT ![p] = "row"]
    /\ UNCHANGED <<fixed, shared>>

\* standardize(), lines 403-410, with _standardize_fast up to its fallback:
\* one pass of the loop, or the response after the last row
ServeRow(p) ==
    /\ mode = "serve" /\ pc[p] = "row"
    /\ LET l == loc[p]
       IN  IF l.idx > Len(l.rows)
           THEN /\ loc' = [loc EXCEPT ![p] = [l EXCEPT !.resp = "ok"]]
                /\ pc' = [pc EXCEPT ![p] = "done"]
           ELSE IF get_raises(l.rows[l.idx])
           THEN /\ loc' = [loc EXCEPT ![p] = failed(l, "AttributeError")]
                /\ pc' = [pc EXCEPT ![p] = "done"]
           ELSE LET text == row_program(l.rows[l.idx])
                IN  \E result \in {_try_rule_based_parse(text)} :
                    IF rule_accepts(result)
                    THEN IF setitem_raises(l.rows[l.idx])
                         THEN /\ loc' = [loc EXCEPT ![p] = failed(l, "TypeError")]
                              /\ pc' = [pc EXCEPT ![p] = "done"]
                         ELSE /\ loc' = [loc EXCEPT ![p] = emitted(l, result)]
                              /\ pc' = [pc EXCEPT ![p] = "row"]
                    ELSE /\ loc' = [loc EXCEPT ![p] = [l EXCEPT !.text = text,
                                                                 !.rule = result]]
                         /\ pc' = [pc EXCEPT ![p] = "lookup"]
    /\ UNCHANGED <<fixed, shared>>

\* the lru_cache wrapper of _call_llm_cached: a hit returns the stored pair,
\* a miss enters the function, whose first statement is llm = _load_llm()
CacheLookup(p) ==
    /\ pc[p] = "lookup"
    /\ LET l == loc[p]
       IN  IF lru_hit(lru, l.text)
           THEN /\ lru' = lru_touch(lru, l.text)
                /\ loc' = [loc EXCEPT ![p] = emitted(l, lru_value(lru, l.text))]
                /\ pc' = [pc EXCEPT ![p] = caller_pc]
                /\ hist' = [hist EXCEPT
                                !.results = noted(@, l.text, lru_value(lru, l.text)),
                                !.hits = @ \cup {l.text}]
           ELSE /\ lru' = lru
                /\ loc' = [loc EXCEPT ![p] = [l EXCEPT !.ret = "call"]]
                /\ pc' = [pc EXCEPT ![p] = "load1"]
                /\ hist' = [hist EXCEPT !.overlap =
                                IF \E q \in Threads \ {p} :
                                       InCall(q) /\ loc[q].text = l.text
                                THEN @ \cup {l.text} ELSE @]
    /\ UNCHANGED <<fixed, _LLM, _LLM_LOCK, inferring, reply>>

\* _load_llm, lines 123-124: the check without the lock
Load1(p) ==
    /\ pc[p] = "load1"
    /\ IF is_loaded(_LLM)
       THEN /\ loc' = [loc EXCEPT ![p] = [@ EXCEPT !.llm = _LLM]]
            /\ pc' = [pc EXCEPT ![p] = after_load_pc(loc[p])]
       ELSE /\ loc' = loc
            /\ pc' = [pc EXCEPT ![p] = "lock"]
    /\ UNCHANGED <<fixed, shared>>

\* _load_llm, line 126: with _LLM_LOCK
AcquireLock(p) ==
    /\ pc[p] = "lock" /\ _LLM_LOCK = 0
    /\ _LLM_LOCK' = p
    /\ pc' = [pc EXCEPT ![p] = "load2"]
    /\ UNCHANGED <<fixed, _LLM, lru, inferring, reply, hist, loc>>

\* a load that keeps the lock when the construction raises
Load2_holding(p) ==
    /\ pc[p] = "load2" /\ _LLM_LOCK = p
    /\ IF still_unloaded(_LLM)
       THEN \E ok \in BOOLEAN :
               IF ok
               THEN /\ _LLM' = hist.constructed + 1
                    /\ _LLM_LOCK' = 0
                    /\ hist' = [hist EXCEPT !.constructed = @ + 1,
                                            !.built_by = loc[p].ret]
                    /\ loc' = [loc EXCEPT ![p] = [@ EXCEPT !.llm = _LLM']]
                    /\ pc' = [pc EXCEPT ![p] = after_load_pc(loc[p])]
               ELSE /\ _LLM' = _LLM
                    /\ _LLM_LOCK' = _LLM_LOCK
                    /\ hist' = hist
                    /\ loc' = [loc EXCEPT ![p] = failed(@, "LoadError")]
                    /\ pc' = [pc EXCEPT ![p] = "done"]
       ELSE /\ _LLM' = _LLM
            /\ _LLM_LOCK' = 0
            /\ hist' = [hist EXCEPT !.contended = TRUE]
            /\ loc' = [loc EXCEPT ![p] = [@ EXCEPT !.llm = _LLM]]
            /\ pc' = [pc EXCEPT ![p] = after_load_pc(loc[p])]
    /\ UNCHANGED <<fixed, lru, inferring, reply>>

\* _load_llm, lines 128-146: the check under the lock, then the download and
\* the construction, which succeed or raise; the lock is released either way
Load2(p) ==
    /\ pc[p] = "load2" /\ _LLM_LOCK = p
    /\ _LLM_LOCK' = 0
    /\ IF still_unloaded(_LLM)
       THEN \E ok \in BOOLEAN :
               IF ok
               THEN /\ _LLM' = hist.constructed + 1
                    /\ hist' = [hist EXCEPT !.constructed = @ + 1,
                                            !.built_by = loc[p].ret]
                    /\ loc' = [loc EXCEPT ![p] = [@ EXCEPT !.llm = _LLM']]
                    /\ pc' = [pc EXCEPT ![p] = after_load_pc(loc[p])]
               ELSE /\ _LLM' = _LLM
                    /\ hist' = hist
                    /\ loc' = [loc EXCEPT ![p] = failed(@, "LoadError")]
                    /\ pc' = [pc EXCEPT ![p] = "done"]
       ELSE /\ _LLM' = _LLM
            /\ hist' = [hist EXCEPT !.contended = TRUE]
            /\ loc' = [loc EXCEPT ![p] = [@ EXCEPT !.llm = _LLM]]
            /\ pc' = [pc EXCEPT ![p] = after_load_pc(loc[p])]
    /\ UNCHANGED <<fixed, lru, inferring, reply>>

\* _call_llm_cached, lines 334-339: the thread enters create_chat_completion
\* on the shared handle; nothing in the code keeps a second thread out
InferStart(p) ==
    /\ pc[p] = "infer"
    /\ inferring' = inferring \cup {p}
    /\ loc' = [q \in Threads |->
                 IF q = p THEN [loc[q] EXCEPT !.raced = inferring # {}]
                 ELSE IF q \in inferring THEN [loc[q] EXCEPT !.raced = TRUE]
                 ELSE loc[q]]
    /\ hist' = [hist EXCEPT !.infer_n = counted(@, loc[p].text)]
    /\ pc' = [pc EXCEPT ![p] = "inferring"]
    /\ UNCHANGED <<fixed, _LLM, _LLM_LOCK, lru, reply>>

\* _call_llm_cached, lines 334-352: the model's text comes back and is parsed
\* and normalised.  The model is deterministic (temperature 0) when it ran
\* alone; a call that overlapped another on the same handle returns anything.
\* create_chat_completion stands outside the try: when it raises, the
\* exception leaves _call_llm_cached and nothing is stored
InferEnd(p) ==
    /\ pc[p] = "inferring"
    /\ inferring' = inferring \ {p}
    /\ \/ /\ LET l == loc[p]
             IN  \E out \in Replies(clients, l.rows) :
                    /\ IF l.raced THEN reply' = reply
                       ELSE IF l.text \in DOMAIN reply
                       THEN out = reply[l.text] /\ reply' = reply
                       ELSE reply' = SetItem(reply, l.text, out)
                    /\ loc' = [loc EXCEPT ![p] =
                                  [l EXCEPT !.got = out,
                                            !.result = normalized_reply(out, l.text)]]
          /\ pc' = [pc EXCEPT ![p] = "store"]
          /\ hist' = hist
       \/ /\ loc' = [loc EXCEPT ![p] = failed(@, "InferenceError")]
          /\ reply' = reply
          /\ pc' = [pc EXCEPT ![p] = "done"]
          /\ hist' = [hist EXCEPT !.raised = @ \cup {loc[p].text}]
    /\ UNCHANGED <<fixed, _LLM, _LLM_LOCK, lru>>

\* the lru_cache wrapper after the call: the result is stored and returned
CacheStore(p) ==
    /\ pc[p] = "store"
    /\ LET l == loc[p]
       IN  /\ lru' = lru_store(lru, l.text, l.result)
           /\ hist' = [hist EXCEPT
                         !.results = noted(@, l.text, l.result),
                         !.evicted = @ \cup (lru_keys(lru) \ lru_keys(lru'))]
           /\ loc' = [loc EXCEPT ![p] = emitted(l, l.result)]
    /\ pc' = [pc EXCEPT ![p] = caller_pc]
    /\ UNCHANGED <<fixed, _LLM, _LLM_LOCK, inferring, reply>>

\* _cli_process_file, lines 430-438: the input file is read
BatchStart(p) ==
    /\ mode = "batch" /\ p = 1 /\ pc[p] = "idle"
    /\ \E payload \in Payloads(clients) :
          IF payload.kind = "invalid"
          THEN /\ loc' = [loc EXCEPT ![p] =
                             [failed(@, "JSONDecodeError") EXCEPT !.body = payload.kind]]
               /\ pc' = [pc EXCEPT ![p] = "done"]
          ELSE /\ loc' = [loc EXCEPT ![p] =
                             [@ EXCEPT !.rows = _normalize_input(payload),
                                       !.idx = 1,
                                       !.body = payload.kind]]
               /\ pc' = [pc EXCEPT ![p] = "b_classify"]
    /\ UNCHANGED <<fixed, shared>>

\* _cli_process_file, lines 440-448: one pass of the classifying loop
BatchClassify(p) ==
    /\ mode = "batch" /\ pc[p] = "b_classify"
    /\ LET l == loc[p]
       IN  IF l.idx > Len(l.rows)
           THEN /\ loc' = loc
                /\ pc' = [pc EXCEPT ![p] = "b_decide"]
           ELSE IF get_raises(l.rows[l.idx])
           THEN /\ loc' = [loc EXCEPT ![p] = failed(l, "AttributeError")]
                /\ pc' = [pc EXCEPT ![p] = "done"]
           ELSE LET row == l.rows[l.idx]
                IN  \E result \in {_try_rule_based_parse(row_program(row))} :
                    IF rule_accepts(result)
                    THEN IF setitem_raises(row)
                         THEN /\ loc' = [loc EXCEPT ![p] = failed(l, "TypeError")]
                              /\ pc' = [pc EXCEPT ![p] = "done"]
                         ELSE /\ loc' = [loc EXCEPT ![p] =
                                    [l EXCEPT !.rule_parsed = Append(@,
                                                  <<l.idx - 1, set_llm_fields(row, result)>>),
                                              !.idx = @ + 1]]
                              /\ pc' = pc
                    ELSE /\ loc' = [loc EXCEPT ![p] =
                                    [l EXCEPT !.llm_needed = Append(@, <<l.idx - 1, row>>),
                                              !.idx = @ + 1]]
                         /\ pc' = pc
    /\ UNCHANGED <<fixed, shared>>

\* _cli_process_file, lines 457-461: the model is loaded ahead of the loop
\* when some row needs it
BatchPreload(p) ==
    /\ mode = "batch" /\ pc[p] = "b_decide"
    /\ IF needs_preload(loc[p].llm_needed)
       THEN /\ loc' = [loc EXCEPT ![p] = [@ EXCEPT !.ret = "preload", !.k = 1]]
            /\ pc' = [pc EXCEPT ![p] = "load1"]
            /\ hist' = [hist EXCEPT !.preloads = @ + 1]
       ELSE /\ loc' = loc
            /\ pc' = [pc EXCEPT ![p] = "b_write"]
            /\ hist' = hist
    /\ UNCHANGED <<fixed, _LLM, _LLM_LOCK, lru, inferring, reply>>

\* _cli_process_file, lines 462-463, with _process_single_row and
\* _standardize_fast up to its fallback
BatchProcess(p) ==
    /\ mode = "batch" /\ pc[p] = "b_process"
    /\ LET l == loc[p]
       IN  IF l.k > Len(l.llm_needed)
           THEN /\ loc' = [loc EXCEPT ![p] = [l EXCEPT !.ret = ""]]
                /\ pc' = [pc EXCEPT ![p] = "b_write"]
           ELSE LET text == row_program(l.llm_needed[l.k][2])
                IN  \E result \in {_try_rule_based_parse(text)} :
                    IF rule_accepts(result)
                    THEN /\ loc' = [loc EXCEPT ![p] = emitted(l, result)]
                         /\ pc' = pc
                    ELSE /\ loc' = [loc EXCEPT ![p] = [l EXCEPT !.text = text,
                                                                 !.rule = result]]
                         /\ pc' = [pc EXCEPT ![p] = "lookup"]
    /\ UNCHANGED <<fixed, shared>>

\* _cli_process_file, lines 466-486: merge, sort by index, write the array
BatchWrite(p) ==
    /\ mode = "batch" /\ pc[p] = "b_write"
    /\ LET l == loc[p]
           all_processed == sorted_by_index(l.rule_parsed \o l.processed_llm)
       IN  loc' = [loc EXCEPT ![p] =
                      [l EXCEPT !.out = [i \in 1..Len(all_processed) |->
                                            all_processed[i][2]],
                                !.resp = "ok"]]
    /\ pc' = [pc EXCEPT ![p] = "done"]
    /\ UNCHANGED <<fixed, shared>>

Next ==
    \E p \in Threads :
        \/ Health(p)
        \/ Request(p)
        \/ ServeRow(p)
        \/ CacheLookup(p)
        \/ Load1(p)
        \/ AcquireLock(p)
        \/ Load2(p)
        \/ InferStart(p)
        \/ InferEnd(p)
        \/ CacheStore(p)
        \/ BatchStart(p)
        \/ BatchClassify(p)
        \/ BatchPreload(p)
        \/ BatchProcess(p)
        \/ BatchWrite(p)

Spec == Init /\ [][Next]_vars

\* The threads of the server run on: a thread that can take the lock, or that
\* holds it inside _load_llm, takes its step
FairSpec ==
    Spec /\ \A p \in Threads : WF_vars(AcquireLock(p)) /\ WF_vars(Load2(p))

(***************************************************************************)
(* The web app: module_4/src/flask_app.py and module_3/app.py              *)
(***************************************************************************)
\* the text of the exception a loader raises, and of a failed stage's stderr
ErrorText == "Boom"
StderrText == "exit 1"

\* str in str
Contains(s, sub) ==
    \E i \in 1..(Len(s) - Len(sub) + 1) : SubSeq(s, i, i + Len(sub) - 1) = sub

\* the stages of the pull pipeline, each a subprocess.run
Stages == <<"scrape", "clean", "llm", "load">>

\* how a subprocess.run ends: return code 0, return code 1, TimeoutExpired,
\* or another exception
StageEnds == {"rc0", "rc1", "timeout", "raised"}

\* how an injected loader ends
LoaderEnds == {"returned", "timeout", "raised"}

StartingMessage == "Starting data scrape..."
CompletedMessage == "Data scraping completed successfully!"

\* the message of a stage that exited non-zero
failed_message(stage) ==
    IF stage = "scrape" THEN "Scraping failed: " \o StderrText
    ELSE IF stage = "clean" THEN "Cleaning failed: " \o StderrText
    ELSE IF app_module = "module_4" THEN "LLM failed: " \o StderrText
    ELSE "LLM standardization failed: " \o StderrText

\* except subprocess.TimeoutExpired
timeout_message ==
    IF app_module = "module_4" THEN "Scraping timed out."
    ELSE "Scraping timed out after 10 minutes."

\* except Exception as e
error_message ==
    IF app_module = "module_4" THEN "Error: " \o ErrorText
    ELSE "Error during scraping: " \o ErrorText

\* the response to a pull while one is running
busy_response ==
    IF app_module = "module_4"
    THEN [status |-> 409, json |-> [ok |-> FALSE, busy |-> TRUE]]
    ELSE [status |-> 200,
          json |-> [success |-> FALSE,
                    message |-> "Data scraping is already in progress. Please wait."]]

\* the response to a pull that started its thread
started_response ==
    IF app_module = "module_4"
    THEN [status |-> 200,
          json |-> [ok |-> TRUE, success |-> TRUE,
                    message |-> "Data scraping started."]]
    ELSE [status |-> 200,
          json |-> [success |-> TRUE,
                    message |-> "Data scraping started. This may take several minutes. The page will update when complete."]]

\* an update that answers as if nothing ran
always_updated(running) ==
    [status |-> 200,
     json |-> [ok |-> TRUE, success |-> TRUE, message |-> "Analysis updated.",
               is_scraping |-> FALSE]]

\* update_analysis()'s two responses
update_response(running) ==
    IF app_module = "module_4"
    THEN IF running
         THEN [status |-> 409, json |-> [ok |-> FALSE, busy |-> TRUE]]
         ELSE [status |-> 200,
               json |-> [ok |-> TRUE, success |-> TRUE,
                         message |-> "Analysis updated.", is_scraping |-> FALSE]]
    ELSE IF running
         THEN [status |-> 200,
               json |-> [success |-> FALSE,
                         message |-> "Cannot update analysis while data scraping is in progress. Please wait for the scraping to complete.",
                         is_scraping |-> TRUE]]
         ELSE [status |-> 200,
               json |-> [success |-> TRUE,
                         message |-> "Analysis updated with the latest data.",
                         is_scraping |-> FALSE]]

\* a handler's response
answered(q, route, resp, running) ==
    [q EXCEPT !.pc = "done", !.route = route, !.status = resp.status,
              !.json = resp.json, !.saw = running]

\* a test that lets every pull through
never_running(state) == FALSE

\* pull_data: "if scraping_state['is_running']"
is_running(state) == state.is_running

\* the standardizer is not part of this program: its state stays as loaded
LlmAtStart ==
    /\ mode = "serve" /\ clients = 1
    /\ CANON_UNIS = <<>> /\ CANON_PROGS = <<>>
    /\ _LLM = 0 /\ _LLM_LOCK = 0 /\ lru = <<>>
    /\ pc = [p \in Threads |-> "idle"]
    /\ loc = [p \in Threads |-> InitLoc]
    /\ inferring = {} /\ reply = EmptyDict /\ hist = InitHist

\* create_app with or without a loader of the caller's; module_3 has none
WebInit ==
    /\ app_module \in {"module_3", "module_4"}
    /\ _scraper_loader \in {"", "fake"}
    /\ app_module = "module_3" => _scraper_loader = ""
    /\ WebAtStart
    /\ DbAtStart
    /\ LlmAtStart

config == <<app_module, _scraper_loader>>

\* pull_data: with scraping_state['lock']
PullAcquire(r) ==
    /\ req[r].pc = "idle" /\ scraping_state.lock = 0
    /\ scraping_state' = [scraping_state EXCEPT !.lock = r]
    /\ req' = [req EXCEPT ![r] = [@ EXCEPT !.pc = "check",
                                           !.route = "/api/pull-data"]]
    /\ UNCHANGED <<llm_vars, db_vars, config, thread>>

\* pull_data under the lock: the busy answer, or is_running = True
PullCheck(r) ==
    /\ req[r].pc = "check" /\ scraping_state.lock = r
    /\ IF is_running(scraping_state)
       THEN /\ scraping_state' = [scraping_state EXCEPT !.lock = 0]
            /\ req' = [req EXCEPT ![r] =
                          answered(@, "/api/pull-data", busy_response, TRUE)]
       ELSE /\ scraping_state' = [scraping_state EXCEPT !.is_running = TRUE]
            /\ req' = [req EXCEPT ![r] = [@ EXCEPT !.pc = "message"]]
    /\ UNCHANGED <<llm_vars, db_vars, config, thread>>

\* pull_data: the message is set and the lock released
PullMessage(r) ==
    /\ req[r].pc = "message" /\ scraping_state.lock = r
    /\ scraping_state' = [scraping_state EXCEPT !.message = StartingMessage,
                                                !.lock = 0]
    /\ req' = [req EXCEPT ![r] = [@ EXCEPT !.pc = "start"]]
    /\ UNCHANGED <<llm_vars, db_vars, config, thread>>

\* pull_data: thread.start() and the response
PullStart(r) ==
    /\ req[r].pc = "start"
    /\ thread' = [thread EXCEPT ![r] = [@ EXCEPT !.pc = "run", !.stage = 1]]
    /\ req' = [req EXCEPT ![r] =
                  answered(@, "/api/pull-data", started_response, FALSE)]
    /\ UNCHANGED <<llm_vars, db_vars, config, scraping_state>>

\* update_analysis: one read of is_running, no lock
UpdateAnalysis(r) ==
    /\ req[r].pc = "idle"
    /\ req' = [req EXCEPT ![r] =
                  answered(@, "/api/update-analysis",
                           update_response(scraping_state.is_running),
                           scraping_state.is_running)]
    /\ UNCHANGED <<llm_vars, db_vars, config, scraping_state, thread>>

\* scrape_status
ScrapeStatus(r) ==
    /\ req[r].pc = "idle"
    /\ req' = [req EXCEPT ![r] =
                  answered(@, "/api/scrape-status",
                           [status |-> 200,
                            json |-> [is_running |-> scraping_state.is_running,
                                      message |-> scraping_state.message]],
                           scraping_state.is_running)]
    /\ UNCHANGED <<llm_vars, db_vars, config, scraping_state, thread>>

\* run_scrape with the caller's loader: run_fn() returns or raises, and the
\* except clauses set the message
RunLoader(r) ==
    /\ thread[r].pc = "run" /\ _scraper_loader = "fake"
    /\ \E end \in LoaderEnds :
          /\ thread' = [thread EXCEPT ![r] = [@ EXCEPT !.pc = "finally",
                                                       !.outcome = end]]
          /\ scraping_state' =
                [scraping_state EXCEPT !.message =
                    IF end = "timeout" THEN timeout_message
                    ELSE IF end = "raised" THEN error_message
                    ELSE @]
    /\ UNCHANGED <<llm_vars, db_vars, config, req>>

\* where run_scrape goes after a stage: the next stage, or its finally clause
next_pc(k, end) == IF end = "rc0" /\ k < Len(Stages) THEN "run" ELSE "finally"

\* the message after a stage: the return code of the last stage is not read
stage_message(k, end, message) ==
    IF end = "timeout" THEN timeout_message
    ELSE IF end = "raised" THEN error_message
    ELSE IF k = Len(Stages) THEN CompletedMessage
    ELSE IF end = "rc0" THEN message
    ELSE failed_message(Stages[k])

\* how run_fn ended, as run_scrape sees it
stage_outcome(end) == IF end \in {"timeout", "raised"} THEN end ELSE "returned"

\* _default_scraper_loader (module_4) and the body of run_scrape (module_3):
\* one subprocess.run and what follows it
RunStage(r) ==
    /\ thread[r].pc = "run" /\ _scraper_loader = ""
    /\ \E end \in StageEnds :
          /\ thread' = [thread EXCEPT ![r] =
                [@ EXCEPT !.pc = next_pc(thread[r].stage, end),
                          !.stage = IF next_pc(@, end) = "run" THEN @ + 1 ELSE @,
                          !.log = Append(@, <<Stages[thread[r].stage], end>>),
                          !.outcome = IF next_pc(thread[r].stage, end) = "run"
                                      THEN @ ELSE stage_outcome(end)]]
          /\ scraping_state' =
                [scraping_state EXCEPT !.message =
                    stage_message(thread[r].stage, end, @)]
    /\ UNCHANGED <<llm_vars, db_vars, config, req>>

\* run_scrape, finally: with scraping_state['lock'] (held as NRequests + r by
\* the thread of request r)
LoaderAcquire(r) ==
    /\ thread[r].pc = "finally" /\ scraping_state.lock = 0
    /\ scraping_state' = [scraping_state EXCEPT !.lock = NRequests + r]
    /\ thread' = [thread EXCEPT ![r] = [@ EXCEPT !.pc = "unlock"]]
    /\ UNCHANGED <<llm_vars, db_vars, config, req>>

\* a finally clause that releases the lock and leaves is_running set
LoaderRelease_keeping(r) ==
    /\ thread[r].pc = "unlock" /\ scraping_state.lock = NRequests + r
    /\ scraping_state' = [scraping_state EXCEPT !.lock = 0]
    /\ thread' = [thread EXCEPT ![r] = [@ EXCEPT !.pc = "done"]]
    /\ UNCHANGED <<llm_vars, db_vars, config, req>>

\* run_scrape, finally: is_running = False, and the lock is released
LoaderRelease(r) ==
    /\ thread[r].pc = "unlock" /\ scraping_state.lock = NRequests + r
    /\ scraping_state' = [scraping_state EXCEPT !.is_running = FALSE,
                                                !.lock = 0]
    /\ thread' = [thread EXCEPT ![r] = [@ EXCEPT !.pc = "done"]]
    /\ UNCHANGED <<llm_vars, db_vars, config, req>>

WebNext ==
    \E r \in Requests :
        \/ PullAcquire(r)
        \/ PullCheck(r)
        \/ PullMessage(r)
        \/ PullStart(r)
        \/ UpdateAnalysis(r)
        \/ ScrapeStatus(r)
        \/ RunLoader(r)
        \/ RunStage(r)
        \/ LoaderAcquire(r)
        \/ LoaderRelease(r)

WebSpec == WebInit /\ [][WebNext]_vars

\* A handler that holds the lock goes on, a started thread runs, its loader
\* ends one way or another, and a thread that can take the lock takes it
WebFairSpec ==
    WebSpec /\ \A r \in Requests :
        /\ WF_vars(PullCheck(r)) /\ WF_vars(PullMessage(r)) /\ WF_vars(PullStart(r))
        /\ WF_vars(RunLoader(r)) /\ WF_vars(RunStage(r))
        /\ WF_vars(LoaderAcquire(r)) /\ WF_vars(LoaderRelease(r))

(***************************************************************************)
(* The loader: module_4/src/load_data.py                                   *)
(***************************************************************************)
\* the records of a data file: with a url, with "url": null, or without the key
DataEntries ==
    {EmptyDict} \cup {SetItem(EmptyDict, "url", u) : u \in {"u1", "u2", None}}

DataFiles == UNION {[1..n -> DataEntries] : n \in 0..MaxEntries}

\* entry.get('url', '')
entry_url(entry) == IF "url" \in DOMAIN entry THEN entry["url"] ELSE ""

\* an INSERT without the ON CONFLICT clause, on a table without the constraint
insert_plain(table, url, p_id) == Append(table, [p_id |-> p_id, url |-> url])

\* INSERT ... ON CONFLICT (url) DO NOTHING on "url TEXT UNIQUE": a row with an
\* equal url is a conflict; NULL (Python's None) is equal to nothing, so a NULL
\* url never conflicts
insert_on_conflict(table, url, p_id) ==
    IF url # None /\ \E i \in 1..Len(table) : table[i].url = url
    THEN table
    ELSE Append(table, [p_id |-> p_id, url |-> url])

\* an except clause that re-raises without the rollback
reraised(c) == [c EXCEPT !.raised = "psycopg.Error", !.pc = "finally"]

\* main, except psycopg.Error: "if conn: conn.rollback()", then raise
rolled_back(c) ==
    [c EXCEPT !.calls = IF c.open THEN Append(@, "rollback") ELSE @,
              !.table = <<>>,
              !.raised = "psycopg.Error",
              !.pc = "finally"]

\* a statement raised psycopg.Error at this place
db_error(c, place) == [c EXCEPT !.failed_at = place, !.pc = "except"]

DbInit ==
    /\ DbAtStart
    /\ app_module = "module_4" /\ _scraper_loader = "" /\ WebAtStart
    /\ LlmAtStart

\* main, lines 205-216: a run of the script reads its data file
Main ==
    /\ conn.pc \in {"idle", "ended"} /\ conn.run < MaxLoads
    /\ \E data \in DataFiles :
          conn' = [pc |-> "connect", run |-> conn.run + 1, data |-> data,
                   idx |-> 1, open |-> FALSE, table |-> <<>>, calls |-> <<>>,
                   failed_at |-> "", raised |-> ""]
    /\ UNCHANGED <<llm_vars, web_vars, applicants, p_id_seq>>

\* main, line 218: conn = get_connection(), which connects or raises; the
\* transaction sees the committed table
GetConnection ==
    /\ conn.pc = "connect"
    /\ \/ conn' = [conn EXCEPT !.open = TRUE, !.table = applicants,
                               !.pc = "create"]
       \/ conn' = db_error(conn, "connect")
    /\ UNCHANGED <<llm_vars, web_vars, applicants, p_id_seq>>

\* main, line 223, create_table: CREATE TABLE IF NOT EXISTS, or an error
CreateTable ==
    /\ conn.pc = "create"
    /\ \/ conn' = [conn EXCEPT !.pc = "load"]
       \/ conn' = db_error(conn, "create")
    /\ UNCHANGED <<llm_vars, web_vars, applicants, p_id_seq>>

\* load_data: one pass of the loop, its cur.execute succeeding or raising, or
\* the return after the last entry.  The sequence gives a value to every
\* attempted row
LoadData ==
    /\ conn.pc = "load"
    /\ IF conn.idx > Len(conn.data)
       THEN /\ conn' = [conn EXCEPT !.pc = "commit"]
            /\ p_id_seq' = p_id_seq
       ELSE \/ /\ conn' = [conn EXCEPT
                              !.table = insert_on_conflict(
                                            @, entry_url(conn.data[conn.idx]),
                                            p_id_seq + 1),
                              !.idx = @ + 1]
               /\ p_id_seq' = p_id_seq + 1
            \/ /\ conn' = db_error(conn, "insert")
               /\ p_id_seq' = p_id_seq
    /\ UNCHANGED <<llm_vars, web_vars, applicants>>

\* main, line 230: conn.commit(), which commits or raises
Commit ==
    /\ conn.pc = "commit"
    /\ \/ /\ conn' = [conn EXCEPT !.calls = Append(@, "commit"), !.pc = "finally"]
          /\ applicants' = conn.table
       \/ /\ conn' = db_error([conn EXCEPT !.calls = Append(@, "commit")], "commit")
          /\ applicants' = applicants
    /\ UNCHANGED <<llm_vars, web_vars, p_id_seq>>

\* main, lines 233-237: except psycopg.Error
Except ==
    /\ conn.pc = "except"
    /\ conn' = rolled_back(conn)
    /\ UNCHANGED <<llm_vars, web_vars, applicants, p_id_seq>>

\* main, lines 238-240: finally, "if conn: conn.close()"
Finally ==
    /\ conn.pc = "finally"
    /\ conn' = [conn EXCEPT !.calls = IF conn.open THEN Append(@, "close") ELSE @,
                            !.pc = "ended"]
    /\ UNCHANGED <<llm_vars, web_vars, applicants, p_id_seq>>

DbNext ==
    \/ Main
    \/ GetConnection
    \/ CreateTable
    \/ LoadData
    \/ Commit
    \/ Except
    \/ Finally

DbSpec == DbInit /\ [][DbNext]_vars

(***************************************************************************)
(* Properties                                                              *)
(***************************************************************************)
\* the threads that hold the handle _load_llm returned to them
Holders == {p \in Threads : loc[p].llm # 0}

\* C1: however many threads call _load_llm while the handle is unloaded, the
\* model is constructed once, every caller gets that one handle, and a set
\* handle is never replaced or reset.
C1_SingleConstruction ==
    /\ [](/\ hist.constructed <= 1
          /\ _LLM = hist.constructed
          /\ \A p \in Threads :
                /\ pc[p] \in {"infer", "inferring"} => loc[p].llm # 0
                /\ loc[p].llm # 0 => loc[p].llm = _LLM)
    /\ [][_LLM # 0 => _LLM' = _LLM]_vars

\* two callers passed the first check while the handle was unloaded; one
\* built it, the other found it under the lock, and both hold it
C1_Witness ==
    /\ hist.contended
    /\ hist.constructed = 1
    /\ Cardinality(Holders) >= 2

\* C2: no two inferences on the shared handle are in progress at once.
C2_InferenceSerialized == Cardinality(inferring) <= 1

LLMKeys == {"llm-generated-program", "llm-generated-university"}

Range(q) == {q[i] : i \in 1..Len(q)}

\* the <<input record, output record>> pairs thread p has produced so far
EmittedPairs(p) ==
    IF mode = "serve"
    THEN {<<loc[p].rows[i], loc[p].out[i]>> : i \in 1..Len(loc[p].out)}
    ELSE {<<loc[p].rows[e[1] + 1], e[2]>> :
             e \in Range(loc[p].rule_parsed) \cup Range(loc[p].processed_llm)}

\* the fields of a record that are not the two result fields
OtherFields(row) == [k \in DOMAIN row.d \ LLMKeys |-> row.d[k]]

AllDicts(rows) == \A i \in 1..Len(rows) : rows[i].kind = "dict"

\* C5: whatever mix of rule-parsed and fallback records the input holds, the
\* batch run and the request handler emit one output record per input record,
\* in the input order.  (A run that emits nothing has failed: it read no JSON
\* at all, or the model could not be loaded or raised.)
C5_OneOutputPerInputInOrder ==
    \A p \in Threads :
        /\ loc[p].resp = "ok" =>
              /\ Len(loc[p].out) = Len(loc[p].rows)
              /\ \A i \in 1..Len(loc[p].rows) :
                    /\ loc[p].out[i].kind = "dict"
                    /\ OtherFields(loc[p].out[i]) = OtherFields(loc[p].rows[i])
        /\ pc[p] = "done" /\ AllDicts(loc[p].rows) =>
              loc[p].resp \in {"ok", "LoadError", "InferenceError", "JSONDecodeError"}

\* a batch run has written its output, and a fallback record came before a
\* rule-parsed one in the input
C5_Witness ==
    /\ mode = "batch" /\ loc[1].resp = "ok"
    /\ \E a \in Range(loc[1].processed_llm) :
          \E b \in Range(loc[1].rule_parsed) : a[1] < b[1]

\* C6: a processed record has the keys it came with and the two result keys,
\* and every other key has the value it came with.
C6_OnlyResultKeysSet ==
    \A p \in Threads :
        \A e \in EmittedPairs(p) :
            /\ DOMAIN e[2].d = DOMAIN e[1].d \cup LLMKeys
            /\ \A k \in DOMAIN e[1].d \ LLMKeys : e[2].d[k] = e[1].d[k]

\* records with further fields have been through both paths
C6_Witness ==
    \E p \in Threads :
        /\ \E e \in EmittedPairs(p) :
              /\ {"url", "comments"} \subseteq DOMAIN e[2].d
              /\ _try_rule_based_parse(row_program(e[1])) # <<>>
        /\ \E e \in EmittedPairs(p) :
              /\ "url" \in DOMAIN e[2].d
              /\ _try_rule_based_parse(row_program(e[1])) = <<>>

\* C7: a batch run asks for the model once, after the classification and
\* before the first fallback record, and not at all when no record needs
\* the fallback; no per-record step constructs the model.
C7_PreloadOnce ==
    mode = "batch" =>
        LET l == loc[1]
            in_load == pc[1] \in {"load1", "lock", "load2"}
        IN  /\ hist.preloads <= 1
            /\ hist.preloads = 1 => l.idx > Len(l.rows) /\ l.llm_needed # <<>>
            /\ in_load /\ l.ret = "preload" => l.processed_llm = <<>> /\ l.k = 1
            /\ hist.built_by # "call"
            /\ hist.constructed <= hist.preloads
            /\ \/ l.processed_llm # <<>>
               \/ pc[1] \in {"lookup", "infer", "inferring", "store"}
               \/ in_load /\ l.ret = "call"
               => hist.preloads = 1 /\ _LLM # 0

\* a batch run with both kinds of records has loaded the model ahead of the
\* loop and has processed a fallback record
C7_Witness ==
    /\ mode = "batch"
    /\ hist.preloads = 1 /\ hist.built_by = "preload"
    /\ loc[1].rule_parsed # <<>>
    /\ loc[1].processed_llm # <<>>

\* C8: the rule-based parser leaves the handle, the cache and the canonical
\* lists alone, and a record it accepts never reaches the load, the model or
\* the cache.
C8_RuleParserHasNoEffect ==
    /\ [](/\ \A p \in Threads :
                pc[p] = "lookup" \/ InCall(p) =>
                    _try_rule_based_parse(loc[p].text) = <<>>
          /\ \A key \in lru_keys(lru) : _try_rule_based_parse(key) = <<>>)
    /\ [][/\ CANON_UNIS' = CANON_UNIS
          /\ CANON_PROGS' = CANON_PROGS
          /\ \A p \in Threads :
                /\ pc[p] \in {"row", "b_classify", "b_process"}
                /\ pc'[p] # pc[p] \/ loc'[p] # loc[p]
                => /\ _LLM' = _LLM /\ _LLM_LOCK' = _LLM_LOCK
                   /\ lru' = lru
                   /\ inferring' = inferring
                   /\ hist' = hist]_vars

\* a request has had a record accepted by the parser, and the handle is
\* unloaded and the cache empty
C8_Witness ==
    \E p \in Threads :
        /\ \E e \in EmittedPairs(p) :
              _try_rule_based_parse(row_program(e[1]))
                  \notin {<<>>, <<"Unknown", "Unknown">>}
        /\ _LLM = 0 /\ lru = <<>>
        /\ hist.infer_n = EmptyDict

\* C9: every result has a non-empty program and a non-empty university.
C9_BothNonEmpty ==
    \A p \in Threads :
        \A e \in EmittedPairs(p) :
            /\ e[2].d["llm-generated-program"] # ""
            /\ e[2].d["llm-generated-university"] # ""

\* the university a fallback call returns, given what the model's text parsed to
C10_FallbackUniversity(parsed, result) ==
    /\ result[2] # ""
    /\ clean_university(parsed[2]) = "" => result[2] = "Unknown"

\* C10: the university of a result is never empty: "Unknown" stands in when
\* the normalisation leaves nothing.
C10_UniversityNeverEmpty ==
    /\ \A p \in Threads :
          \A e \in EmittedPairs(p) : e[2].d["llm-generated-university"] # ""
    /\ \A p \in Threads :
          pc[p] = "store" =>
              C10_FallbackUniversity(parse_reply(loc[p].got, loc[p].text),
                                     loc[p].result)

\* a fallback call whose university normalised to nothing returns "Unknown"
C10_Witness ==
    \E p \in Threads :
        /\ pc[p] = "store"
        /\ clean_university(parse_reply(loc[p].got, loc[p].text)[2]) = ""
        /\ loc[p].result[2] = "Unknown"

\* the non-empty comma-separated parts of a raw text, as _smart_split sees them
Cleaned(text) == strip_set(strip(collapse_ws(Chars(text))), {","})

PartsOf(text) == nonempty_parts(split_comma(Cleaned(text)))

\* the join of parts[i:] is a listed university, close to one, or has a keyword
HasSignal(candidate_uni) ==
    \/ in_list(candidate_uni, CANON_UNIS)
    \/ _best_match(candidate_uni, CANON_UNIS, 88) # ""
    \/ _UNI_KW_RE(Chars(candidate_uni))

SuffixSignal(parts) ==
    \E i \in 0..(Len(parts) - 1) : HasSignal(Str(join_slice(parts, i, Len(parts))))

NoSignal(text) == ~SuffixSignal(PartsOf(text))

\* C11: when no comma-delimited suffix of the raw text is a canonical
\* university (exactly or closely) or holds a university keyword, a result
\* made without a parsed model response (the rule-based parser answered, or
\* the model's text did not parse) has the university "Unknown".
C11_UnknownWithoutSignal ==
    \A p \in Threads :
        /\ \A e \in EmittedPairs(p) :
              /\ rule_accepts(_try_rule_based_parse(row_program(e[1])))
              /\ NoSignal(row_program(e[1]))
              => e[2].d["llm-generated-university"] = "Unknown"
        /\ /\ pc[p] = "store"
           /\ loc[p].got.kind # "object"
           /\ NoSignal(loc[p].text)
           => loc[p].result[2] = "Unknown"


\* the model's text holds an object with both fields
WellFormed(out) ==
    /\ out.kind = "object"
    /\ {"standardized_program", "standardized_university"} \subseteq DOMAIN out.d

\* C12: when the model's text holds no object with both standardized_program
\* and standardized_university, the fallback call returns the two normalizers
\* applied to _split_fallback of the raw text.
C12_DegradesToSplitter ==
    \A p \in Threads :
        pc[p] = "store" /\ ~WellFormed(loc[p].got) =>
            loc[p].result = normalized_pair(_split_fallback(loc[p].text))

\* the accept rule as stated: the normalized university is not "Unknown" and
\* the normalized program is non-empty, or the raw fragment is listed
StatedAccept(sp) ==
    \/ /\ _post_normalize_university(sp[2]) # "Unknown"
       /\ _post_normalize_program(sp[1]) # ""
    \/ in_list(sp[2], CANON_UNIS)

\* for a non-blank text whose split has a university fragment, the parser
\* returned a result exactly when the stated rule accepts
AcceptAsStated(text, sp, returned) ==
    strip(Chars(text)) # <<>> /\ sp[2] # "" => (returned <=> StatedAccept(sp))

\* C13: for non-blank raw text whose split has a non-empty university
\* fragment, _try_rule_based_parse returns a result exactly when the
\* normalized university is not "Unknown" and the normalized program is
\* non-empty, or the raw university fragment is an exact member of the
\* canonical university list.
C13_AcceptRule ==
    \A p \in Threads :
        /\ \A e \in Range(loc[p].rule_parsed) :
              AcceptAsStated(row_program(loc[p].rows[e[1] + 1]),
                             _smart_split(row_program(loc[p].rows[e[1] + 1])), TRUE)
        /\ \A e \in Range(loc[p].llm_needed) :
              AcceptAsStated(row_program(e[2]), _smart_split(row_program(e[2])), FALSE)
        /\ pc[p] = "lookup" =>
              AcceptAsStated(loc[p].text, _smart_split(loc[p].text), FALSE)

\* the accept rule with the second test on the normalized university
NormalizedAccept(prog, uni) ==
    \/ uni # "Unknown" /\ prog # ""
    \/ uni # "" /\ in_list(uni, CANON_UNIS)

\* a row the parser answered carries the normalized pair and passes the
\* rule; a row it did not answer fails the rule
AnsweredByRule(text, sp, row) ==
    strip(Chars(text)) # <<>> /\ sp[2] # "" =>
        /\ row.d["llm-generated-program"] = _post_normalize_program(sp[1])
        /\ row.d["llm-generated-university"] = _post_normalize_university(sp[2])
        /\ NormalizedAccept(row.d["llm-generated-program"],
                            row.d["llm-generated-university"])

LeftToModel(text, sp) ==
    strip(Chars(text)) # <<>> /\ sp[2] # "" =>
        ~NormalizedAccept(_post_normalize_program(sp[1]),
                          _post_normalize_university(sp[2]))

\* C13 (amended): for non-blank raw text whose split has a non-empty
\* university fragment, _try_rule_based_parse returns the normalized pair
\* exactly when the normalized university is not "Unknown" and the normalized
\* program is non-empty, or the normalized university is an exact member of
\* the canonical university list; otherwise it returns None.
C13_AcceptRuleNormalized ==
    \A p \in Threads :
        /\ \A e \in Range(loc[p].rule_parsed) :
              AnsweredByRule(row_program(loc[p].rows[e[1] + 1]),
                             _smart_split(row_program(loc[p].rows[e[1] + 1])), e[2])
        /\ \A e \in Range(loc[p].llm_needed) :
              LeftToModel(row_program(e[2]), _smart_split(row_program(e[2])))
        /\ pc[p] = "lookup" => LeftToModel(loc[p].text, _smart_split(loc[p].text))

\* the parser has answered a record whose raw fragment is not listed, whose
\* normalized university is listed and whose normalized program is empty
C13_Witness ==
    \E e \in Range(loc[1].rule_parsed) :
        /\ ~in_list(_smart_split(row_program(loc[1].rows[e[1] + 1]))[2], CANON_UNIS)
        /\ e[2].d["llm-generated-program"] = ""
        /\ in_list(e[2].d["llm-generated-university"], CANON_UNIS)

\* a non-blank raw text with at most one non-empty comma-separated part
SinglePart(text) == strip(Chars(text)) # <<>> /\ Len(PartsOf(text)) <= 1

\* the raw texts of the records of thread p's request
TextsOf(p) ==
    {row_program(loc[p].rows[i]) : i \in 1..Len(loc[p].rows)}

\* thread p is at a record, in the request loop or in either batch loop
AtRecord(p) ==
    \/ pc[p] = "row" /\ loc[p].idx <= Len(loc[p].rows)
    \/ pc[p] = "b_classify" /\ loc[p].idx <= Len(loc[p].rows)
    \/ pc[p] = "b_process" /\ loc[p].k <= Len(loc[p].llm_needed)

CurrentText(p) ==
    IF pc[p] = "b_process" THEN row_program(loc[p].llm_needed[loc[p].k][2])
    ELSE row_program(loc[p].rows[loc[p].idx])

\* C14: for a non-blank raw text with at most one non-empty comma-separated
\* part, _smart_split returns the whole cleaned string and an empty university
\* fragment, _try_rule_based_parse returns None, and the record is handed to
\* the fallback (the cache lookup, then the model): no answer is emitted for
\* it that did not come out of the cached model call.
C14_SinglePartEscalates ==
    /\ [](\A p \in Threads :
            /\ \A t \in TextsOf(p) :
                  SinglePart(t) =>
                      /\ _smart_split(t) = <<Str(Cleaned(t)), "">>
                      /\ _try_rule_based_parse(t) = <<>>
            /\ \A e \in Range(loc[p].rule_parsed) :
                  ~SinglePart(row_program(loc[p].rows[e[1] + 1]))
            /\ \A e \in EmittedPairs(p) :
                  SinglePart(row_program(e[1])) =>
                      /\ row_program(e[1]) \in DOMAIN hist.results
                      /\ <<e[2].d["llm-generated-program"],
                           e[2].d["llm-generated-university"]>>
                             \in hist.results[row_program(e[1])])
    /\ [][\A p \in Threads :
            /\ AtRecord(p)
            /\ SinglePart(CurrentText(p))
            /\ pc'[p] # pc[p] \/ loc'[p] # loc[p]
            => IF pc[p] = "b_classify"
               THEN /\ loc'[p].llm_needed =
                          Append(loc[p].llm_needed,
                                 <<loc[p].idx - 1, loc[p].rows[loc[p].idx]>>)
                    /\ loc'[p].rule_parsed = loc[p].rule_parsed
               ELSE /\ pc'[p] = "lookup"
                    /\ loc'[p].text = CurrentText(p)
                    /\ loc'[p].out = loc[p].out
                    /\ loc'[p].processed_llm = loc[p].processed_llm]_vars

\* a record whose text has one part and a trailing comma has been answered
\* after an inference for that text
C14_Witness ==
    \E p \in Threads :
        \E e \in EmittedPairs(p) :
            /\ SinglePart(row_program(e[1]))
            /\ Str(Cleaned(row_program(e[1]))) # row_program(e[1])
            /\ row_program(e[1]) \in DOMAIN hist.infer_n

\* the boundaries of parts whose right-hand join qualifies
Qualifying(parts) ==
    {i \in 1..(Len(parts) - 1) : HasSignal(Str(join_slice(parts, i, Len(parts))))}

Rightmost(Q) == CHOOSE i \in Q : \A j \in Q : j <= i

\* the university taken at a qualifying boundary: the candidate when listed,
\* else the listed name close to it, else the candidate
AcceptedForm(candidate_uni, canon_match) ==
    IF in_list(candidate_uni, CANON_UNIS) THEN candidate_uni
    ELSE IF canon_match # "" THEN canon_match
    ELSE candidate_uni

SplitAt(parts, i) ==
    <<Str(join_slice(parts, 0, i)),
      AcceptedForm(Str(join_slice(parts, i, Len(parts))),
                   _best_match(Str(join_slice(parts, i, Len(parts))), CANON_UNIS, 88))>>

\* the split as stated, for two or more parts
StatedSplit(parts, Q) ==
    IF Q = {} THEN <<Str(parts[1]), Str(join_slice(parts, 1, Len(parts)))>>
    ELSE SplitAt(parts, Rightmost(Q))

SplitsAsStated(t, parts) ==
    Len(parts) >= 2 => _smart_split(t) = StatedSplit(parts, Qualifying(parts))

Temple == "Criminology, Law and Society, Temple University"

\* C15: for a raw text with two or more parts, _smart_split takes the
\* rightmost boundary whose right-hand join is a listed university, or is
\* close to one at cutoff 0.88 (the listed form is returned), or holds a
\* university keyword; the program is the parts left of it joined by ", ";
\* with no such boundary the program is the first part and the university
\* the rest.  The text Temple splits into "Criminology, Law and Society" and
\* "Temple University".
C15_RightmostBoundary ==
    \A p \in Threads :
        \A t \in TextsOf(p) :
            /\ SplitsAsStated(t, PartsOf(t))
            /\ t = Temple =>
                  _smart_split(t) = <<"Criminology, Law and Society", "Temple University">>

\* the record with the text Temple has been answered with the listed
\* university, and the program kept its commas
C15_Witness ==
    \E p \in Threads :
        \E e \in EmittedPairs(p) :
            /\ row_program(e[1]) = Temple
            /\ in_list("Temple University", CANON_UNIS)
            /\ e[2].d["llm-generated-program"] = "Criminology, Law and Society"
            /\ e[2].d["llm-generated-university"] = "Temple University"

Blank(text) == strip(Chars(text)) = <<>>

\* a record without a program: the field is missing, null, empty or blank
BlankRecord(row) ==
    /\ row.kind = "dict"
    /\ \/ "program" \notin DOMAIN row.d
       \/ row.d["program"] = None
       \/ Blank(row.d["program"])

CurrentRow(p) ==
    IF pc[p] = "b_process" THEN loc[p].llm_needed[loc[p].k][2]
    ELSE loc[p].rows[loc[p].idx]

\* C16: a record whose raw text is empty or blank, or whose program field is
\* missing or null, gets ("Unknown", "Unknown"), and handling it triggers no
\* model load, no inference and no cache write.
C16_BlankIsUnknown ==
    /\ [](\A p \in Threads :
            /\ \A e \in EmittedPairs(p) :
                  BlankRecord(e[1]) =>
                      /\ e[2].d["llm-generated-program"] = "Unknown"
                      /\ e[2].d["llm-generated-university"] = "Unknown"
            /\ \A e \in Range(loc[p].llm_needed) : ~BlankRecord(e[2])
            /\ pc[p] = "lookup" \/ InCall(p) => ~Blank(loc[p].text)
            /\ \A key \in lru_keys(lru) \cup DOMAIN hist.infer_n : ~Blank(key))
    /\ [][\A p \in Threads :
            /\ AtRecord(p)
            /\ BlankRecord(CurrentRow(p))
            /\ pc'[p] # pc[p] \/ loc'[p] # loc[p]
            => /\ pc'[p] = pc[p]
               /\ _LLM' = _LLM /\ _LLM_LOCK' = _LLM_LOCK
               /\ lru' = lru
               /\ inferring' = inferring
               /\ hist' = hist]_vars

\* a request with a record without the field and a record with a null field
\* has been answered, and the model is unloaded and the cache empty
C16_Witness ==
    \E p \in Threads :
        /\ loc[p].resp = "ok"
        /\ \E e \in EmittedPairs(p) : "program" \notin DOMAIN e[1].d
        /\ \E e \in EmittedPairs(p) :
              /\ "program" \in DOMAIN e[1].d
              /\ e[1].d["program"] = None
              /\ e[2].d["llm-generated-university"] = "Unknown"
        /\ _LLM = 0 /\ lru = <<>> /\ hist.infer_n = EmptyDict

\* C17: both normalizers are idempotent: every program and university the
\* service emits is an output of its normalizer (or the sentinel), and
\* normalizing it again leaves it as it is.
C17_NormalizersIdempotent ==
    \A p \in Threads :
        /\ \A e \in EmittedPairs(p) :
              /\ _post_normalize_program(e[2].d["llm-generated-program"])
                     = e[2].d["llm-generated-program"]
              /\ _post_normalize_university(e[2].d["llm-generated-university"])
                     = e[2].d["llm-generated-university"]
        /\ pc[p] = "store" =>
              /\ _post_normalize_program(loc[p].result[1]) = loc[p].result[1]
              /\ _post_normalize_university(loc[p].result[2]) = loc[p].result[2]

\* C18: the raw text "Information, McG" is answered with the program
\* "Information Studies" and the university "McGill University".
C18_InformationMcG ==
    \A p \in Threads :
        \A e \in EmittedPairs(p) :
            row_program(e[1]) = "Information, McG" =>
                /\ e[2].d["llm-generated-program"] = "Information Studies"
                /\ e[2].d["llm-generated-university"] = "McGill University"

\* C19: a record that is null or no mapping does not end the request or
\* the batch run: a run ends with every record answered, unless the input
\* could not be read or the model could not be loaded or raised.
C19_RecordFailureContained ==
    \A p \in Threads :
        pc[p] = "done" =>
            /\ loc[p].resp \in {"ok", "LoadError", "InferenceError", "JSONDecodeError"}
            /\ loc[p].resp = "ok" => Len(loc[p].out) = Len(loc[p].rows)

\* every record is a mapping that the rule-based parser answers
RuleOnly(rows) ==
    \A i \in 1..Len(rows) :
        /\ rows[i].kind = "dict"
        /\ _try_rule_based_parse(row_program(rows[i])) # <<>>

\* some record is left to the fallback
NeedsFallback(rows) ==
    \E i \in 1..Len(rows) : _try_rule_based_parse(row_program(rows[i])) = <<>>

InLoadOrCall(p) ==
    pc[p] \in {"lookup", "load1", "lock", "load2", "infer", "inferring", "store"}

\* C20: a failed load of the model fails only requests that hold a record
\* left to the fallback.  The health check answers ok in every state, and a
\* request whose records are all mappings answered by the rule-based parser
\* never reaches the load and ends ok with every record, whether or not a
\* load has failed before; a failed load leaves the lock free.
C20_LoadFailureIsolated ==
    /\ _LLM_LOCK # 0 => pc[_LLM_LOCK] = "load2"
    /\ \A p \in Threads :
          /\ loc[p].resp = "LoadError" => NeedsFallback(loc[p].rows)
          /\ loc[p].route = "/" => pc[p] = "done" /\ loc[p].resp = "ok"
          /\ loc[p].route # "/" /\ RuleOnly(loc[p].rows) =>
                /\ ~InLoadOrCall(p)
                /\ loc[p].resp \in {"none", "ok", "JSONDecodeError"}
                /\ pc[p] = "done" /\ loc[p].resp = "ok" =>
                      Len(loc[p].out) = Len(loc[p].rows)

\* after a request has failed at the load, a request with a record that the
\* parser answers has come in and has ended ok
C20_Witness ==
    \E p \in Threads :
        /\ \E q \in Threads \ {p} : loc[q].resp = "LoadError"
        /\ loc[p].late /\ loc[p].route = "/standardize"
        /\ loc[p].rows # <<>> /\ RuleOnly(loc[p].rows)
        /\ pc[p] = "done" /\ loc[p].resp = "ok"
        /\ _LLM = 0

\* C21: a POST /standardize whose body is no JSON, or is JSON that is
\* neither a list nor an object with a list under "rows", is handled as an
\* empty list of records: the response is {"rows": []}, no error ends the
\* request, and the request neither loads nor calls the model.
C21_MalformedBodyIsEmpty ==
    /\ [](\A p \in Threads :
            mode = "serve" /\ loc[p].body \in {"other", "invalid"} =>
                /\ loc[p].rows = <<>> /\ loc[p].out = <<>>
                /\ pc[p] \in {"row", "done"}
                /\ loc[p].resp = (IF pc[p] = "done" THEN "ok" ELSE "none"))
    /\ [][\A p \in Threads :
            /\ mode = "serve" /\ loc[p].body \in {"other", "invalid"}
            /\ pc'[p] # pc[p] \/ loc'[p] # loc[p]
            => /\ _LLM' = _LLM /\ _LLM_LOCK' = _LLM_LOCK /\ lru' = lru
               /\ inferring' = inferring /\ hist' = hist]_vars

\* a request whose body was no JSON has been answered with no rows, and the
\* model is unloaded
C21_Witness ==
    \E p \in Threads :
        /\ mode = "serve" /\ loc[p].body = "invalid"
        /\ pc[p] = "done" /\ loc[p].resp = "ok" /\ loc[p].out = <<>>
        /\ _LLM = 0 /\ hist.infer_n = EmptyDict

C28_FailedLoadReleasesLock ==
    /\ [](_LLM_LOCK # 0 => pc[_LLM_LOCK] = "load2")
    /\ [][\A p \in Threads :
            loc'[p].resp = "LoadError" /\ loc[p].resp # "LoadError" =>
                /\ pc[p] = "load2"
                /\ _LLM = 0 /\ _LLM' = 0
                /\ _LLM_LOCK' = 0
                /\ lru' = lru]_vars
    /\ \A p \in Threads : (pc[p] = "lock") ~> (pc[p] = "load2")

\* after a request ended at a failed load, a later request has loaded the model
C28_Witness ==
    \E p \in Threads :
        /\ \E q \in Threads \ {p} : loc[q].resp = "LoadError"
        /\ loc[p].late
        /\ clients = 2
        /\ _LLM # 0 /\ hist.constructed = 1
        /\ _LLM_LOCK = 0

\* what one record becomes: the rule's answer when the rule accepts its text,
\* else the model's answer to that text, normalised
AnswerFor(text, rule) ==
    IF rule # <<>> THEN rule ELSE normalized_reply(reply[text], text)

ExpectedRecord(row) ==
    set_llm_fields(row, AnswerFor(row_program(row),
                                  _try_rule_based_parse(row_program(row))))

ExpectedRecords(rows) == [i \in 1..Len(rows) |-> ExpectedRecord(rows[i])]

\* C29: with one run at a time on a deterministic model, the records a batch
\* run writes and the records POST /standardize returns are the same function
\* of the input records, the canonical lists and the model's replies: each
\* input record, in the input order, with the answer of the rule or of the
\* model set on it.
C29_BatchEqualsService ==
    clients = 1 =>
        \A p \in Threads :
            loc[p].resp = "ok" /\ loc[p].route # "/" =>
                loc[p].out = ExpectedRecords(loc[p].rows)

\* a batch run has written both kinds of record, a fallback record ahead of a
\* rule-parsed one, and the model had answered with a JSON object
C29_Witness ==
    /\ mode = "batch" /\ loc[1].resp = "ok" /\ Len(loc[1].out) = 2
    /\ _try_rule_based_parse(row_program(loc[1].rows[1])) = <<>>
    /\ _try_rule_based_parse(row_program(loc[1].rows[2])) # <<>>
    /\ reply[row_program(loc[1].rows[1])].kind = "object"
    /\ loc[1].out = ExpectedRecords(loc[1].rows)
\* the run_scrape threads that have started and not ended
Active == {r \in Requests : thread[r].pc \in {"run", "finally", "unlock"}}

\* the pull requests that have been answered
PullsDone ==
    {r \in Requests : req[r].pc = "done" /\ req[r].route = "/api/pull-data"}

HasTrue(json, key) == key \in DOMAIN json /\ json[key] = TRUE
HasFalse(json, key) == key \in DOMAIN json /\ json[key] = FALSE

\* at most one run_scrape thread at a time, it runs only while is_running is
\* set, a refused pull starts none and an accepted pull has started its own
OneLoaderAtATime ==
    /\ Cardinality(Active) <= 1
    /\ Active # {} => scraping_state.is_running
    /\ \A r \in PullsDone : req[r].saw <=> thread[r].pc = "none"
    /\ \A r \in Requests : thread[r].pc # "none" => r \in PullsDone

\* C23 as stated: at most one loader run at a time; a pull that finds one
\* running is answered 409 with busy true and starts no loader, a pull that
\* finds none is answered 200 with ok true and starts one.
C23_OnePullAtATime ==
    /\ OneLoaderAtATime
    /\ \A r \in PullsDone :
          IF req[r].saw
          THEN req[r].status = 409 /\ HasTrue(req[r].json, "busy")
          ELSE req[r].status = 200 /\ HasTrue(req[r].json, "ok")

\* C23 as the two apps have it: at most one loader run at a time in both;
\* flask_app.py (module_4) answers a refused pull 409 with busy true and an
\* accepted one 200 with ok true, app.py (module_3) answers both 200, with
\* success false and with success true.
C23_OnePullAtATimeBothApps ==
    /\ OneLoaderAtATime
    /\ \A r \in PullsDone :
          IF app_module = "module_4"
          THEN IF req[r].saw
               THEN req[r].status = 409 /\ HasTrue(req[r].json, "busy")
               ELSE req[r].status = 200 /\ HasTrue(req[r].json, "ok")
          ELSE /\ req[r].status = 200
               /\ "busy" \notin DOMAIN req[r].json
               /\ "ok" \notin DOMAIN req[r].json
               /\ IF req[r].saw THEN HasFalse(req[r].json, "success")
                  ELSE HasTrue(req[r].json, "success")

\* while the loader of one pull runs, a second pull has been refused with 409
C23_Witness ==
    \E r \in Requests : \E q \in Requests \ {r} :
        /\ thread[q].pc = "run" /\ req[q].status = 200
        /\ r \in PullsDone /\ req[r].saw /\ req[r].status = 409
        /\ thread[r].pc = "none"
\* the update requests that have been answered
UpdatesDone ==
    {r \in Requests : req[r].pc = "done" /\ req[r].route = "/api/update-analysis"}

\* C24: in flask_app.py, POST /api/update-analysis is answered 409 with busy
\* true when is_running is set at the time of the request and 200 with ok and
\* success true otherwise, and the request leaves is_running, the message and
\* the lock as they were.
C24_UpdateAnalysisReadsOnly ==
    /\ [](app_module = "module_4" =>
             \A r \in UpdatesDone :
                 IF req[r].saw
                 THEN req[r].status = 409 /\ HasTrue(req[r].json, "busy")
                 ELSE /\ req[r].status = 200
                      /\ HasTrue(req[r].json, "ok")
                      /\ HasTrue(req[r].json, "success"))
    /\ [][\A r \in Requests :
             r \notin UpdatesDone /\ r \in UpdatesDone' =>
                 /\ scraping_state' = scraping_state
                 /\ thread' = thread
                 /\ req'[r].saw = scraping_state.is_running]_vars

\* an update was refused while a loader ran, and another was answered 200
\* after the loader had ended
C24_Witness ==
    /\ app_module = "module_4"
    /\ \E r \in UpdatesDone : req[r].status = 409
    /\ \E r \in UpdatesDone : req[r].status = 200
    /\ \E q \in Requests : thread[q].pc = "done"
\* C25: once a pull has set is_running, its run_scrape thread ends and resets
\* it, whether the loader returned, raised or timed out, and the request is
\* answered 200; when the loader raised, the message then holds the error's
\* text, and "timed out" after a timeout; and a pull that finds is_running
\* reset is accepted.
C25_PullEndsAndReopens ==
    /\ \A r \in Requests :
          /\ (req[r].pc = "message") ~> (thread[r].pc = "done")
          /\ (req[r].pc = "message") ~> (req[r].status = 200)
    /\ [][\A r \in Requests :
             thread[r].pc # "done" /\ thread'[r].pc = "done" =>
                 /\ scraping_state.is_running /\ ~scraping_state'.is_running
                 /\ thread[r].outcome \in LoaderEnds
                 /\ thread[r].outcome = "raised" =>
                       Contains(scraping_state'.message, ErrorText)
                 /\ thread[r].outcome = "timeout" =>
                       Contains(scraping_state'.message, "timed out")]_vars
    /\ [][\A r \in Requests :
             /\ req[r].pc = "check" /\ req'[r].pc # "check"
             /\ ~scraping_state.is_running
             => req'[r].pc = "message" /\ scraping_state'.is_running]_vars

\* a loader raised, one timed out, each thread has ended, and a third pull
\* has been accepted since
C25_Witness ==
    \E q1 \in Requests : \E q2 \in Requests : \E r \in Requests :
        /\ thread[q1].pc = "done" /\ thread[q1].outcome = "raised"
        /\ thread[q2].pc = "done" /\ thread[q2].outcome = "timeout"
        /\ thread[r].pc = "run" /\ req[r].status = 200
        /\ scraping_state.is_running
\* the stages a thread has run are the pipeline's, in its order, and every
\* stage but the last one run exited with return code 0
InOrderAfterSuccess(log) ==
    /\ Len(log) <= Len(Stages)
    /\ \A i \in 1..Len(log) :
          /\ log[i][1] = Stages[i]
          /\ i < Len(log) => log[i][2] = "rc0"

\* all four stages have run and each exited with return code 0
AllStagesOk(log) ==
    /\ Len(log) = Len(Stages)
    /\ \A i \in 1..Len(log) : log[i] = <<Stages[i], "rc0">>

\* C30: the default pipeline sets 'Data scraping completed successfully!'
\* only when scrape, clean, LLM-standardize and load have each run, in that
\* order, and each exited with return code 0; and no stage is started after
\* an earlier one exited non-zero.
C30_CompletedOnlyAfterAllStagesOk ==
    /\ [](\A r \in Requests : InOrderAfterSuccess(thread[r].log))
    /\ [][\A r \in Requests :
             /\ thread'[r] # thread[r]
             /\ scraping_state'.message = CompletedMessage
             /\ scraping_state.message # CompletedMessage
             => AllStagesOk(thread'[r].log)]_vars
UrlsIn(table) == {table[i].url : i \in 1..Len(table)}
UrlsOf(data) == {entry_url(data[i]) : i \in 1..Len(data)}
IsPrefix(a, b) == Len(a) <= Len(b) /\ SubSeq(b, 1, Len(a)) = a

\* C26: a load inserts a row only for a url that no row has yet, so the table
\* never holds two rows with one url, and a committed load leaves the rows it
\* found and adds one row per url of its list that was not there: loading the
\* same list again, or one whose urls are all there, changes nothing.
C26_LoadIsIdempotent ==
    /\ [](\A i \in 1..Len(applicants) : \A j \in 1..Len(applicants) :
             i # j => applicants[i].url # applicants[j].url)
    /\ [][conn.pc = "load" /\ conn'.table # conn.table =>
             entry_url(conn.data[conn.idx]) \notin UrlsIn(conn.table)]_vars
    /\ [][applicants' # applicants =>
             /\ IsPrefix(applicants, applicants')
             /\ Len(applicants') =
                   Len(applicants)
                   + Cardinality(UrlsOf(conn.data) \ UrlsIn(applicants))]_vars
\* C27: a run of main in which create_table or an insert raised a database
\* error has called rollback once, then close, and never commit, and has
\* re-raised the error; a run in which nothing raised has called commit once,
\* then close; and the committed table changes only at a commit of a run in
\* which nothing has failed.
C27_RollbackOrCommitThenClose ==
    /\ [](conn.pc = "ended" =>
             /\ conn.failed_at \in {"create", "insert"} =>
                   /\ conn.calls = <<"rollback", "close">>
                   /\ conn.raised = "psycopg.Error"
             /\ conn.failed_at = "" =>
                   /\ conn.calls = <<"commit", "close">>
                   /\ conn.raised = ""
                   /\ applicants = conn.table)
    /\ [][applicants' # applicants =>
             conn.pc = "commit" /\ conn.failed_at = ""]_vars

\* the second run failed at its second insert, after a first run had
\* committed a row: the row of the first run is all the table holds
C27_Witness ==
    /\ conn.pc = "ended" /\ conn.run = 2
    /\ conn.failed_at = "insert" /\ conn.idx = 2
    /\ conn.calls = <<"rollback", "close">>
    /\ Len(applicants) = 1
=============================================================================
